---- MODULE Spec2Model ----
(***************************************************************************)
(* Model of the webhdfs-rs request pipeline: the HA failover driver        *)
(* (async_client.rs, macro with_failover), the redirect driver and the     *)
(* response classification (rest_client.rs) and the memoized failover      *)
(* state of the synchronous client (sync_client.rs).                       *)
(*                                                                         *)
(* One client is modelled.  An operation is a sequence of steps: the call  *)
(* (which builds the URI and sends the first request), one step per HTTP   *)
(* response, and, for sync calls, a timeout that may fire while a request  *)
(* is in flight.  The server is the environment: it answers every request  *)
(* with any response, or, when the cluster is an HA pair with fixed roles, *)
(* with StandbyException on the standby NameNode and anything else on the  *)
(* active one.                                                             *)
(*                                                                         *)
(* Configuration is assumed well formed as in the data model: entrypoint   *)
(* and alt_entrypoint are URLs with scheme and authority.                  *)
(***************************************************************************)
EXTENDS Integers, Sequences, FiniteSets, TLC

\* ------------------------------------------------------------------------
\* Bounds of the model
\* ------------------------------------------------------------------------

\* longest payload a caller hands to create / append
MaxPayloadLen == 2

\* how many times the HA pair may swap its active / standby roles
MaxSwaps == 1

\* the bits of the integers that stand for i64 and u64
IntBits == 3

\* the longest buffer a read is given
MaxBuf == 2

\* the longest chunk of a response body
MaxChunk == 2

\* the most bytes a response body holds
MaxServed == 3

\* the longest string handed to the percent-encoder as a whole
MaxStrLen == 3

\* the number of extend calls on one PathEncoder
MaxExtends == 2

\* the number of options an option builder is given
MaxArgs == 2

\* the bits of a permission value handed to an option builder
PermBits == 10

\* HdfsClient.default_timeout, in ticks of the clock
default_timeout == 2

\* ------------------------------------------------------------------------
\* Values
\* ------------------------------------------------------------------------

PRIMARY == "PRIMARY"
ALT == "ALT"

\* async_client.rs: pub enum FOState { PRIMARY, ALT }
FOState == {PRIMARY, ALT}

\* FOState::next
next(s) == IF s = ALT THEN PRIMARY ELSE ALT

\* FOState::is_alt
is_alt(s) == s = ALT

\* Option<Data>
None == [some |-> FALSE, v |-> <<>>]

Some(d) == [some |-> TRUE, v |-> d]

\* rest_client.rs: data_empty()
data_empty == <<>>

\* payloads: byte strings of length 0..MaxPayloadLen (byte i of a payload is i,
\* so a truncated, duplicated or emptied payload is a different value)
Payloads == {[i \in 1..n |-> i] : n \in 0..MaxPayloadLen}

\* op.rs: enum Op, by the client method that issues it
Ops ==
  {"dir", "stat", "open", "create", "append", "concat", "mkdirs", "rename",
   "create_symlink", "delete"}

\* op.rs: Op::op_string
op_string(op) ==
  CASE op = "dir" -> "LISTSTATUS"
    [] op = "stat" -> "GETFILESTATUS"
    [] op = "open" -> "OPEN"
    [] op = "create" -> "CREATE"
    [] op = "append" -> "APPEND"
    [] op = "concat" -> "CONCAT"
    [] op = "mkdirs" -> "MKDIRS"
    [] op = "rename" -> "RENAME"
    [] op = "create_symlink" -> "CREATESYMLINK"
    [] OTHER -> "DELETE"

\* the HTTP method each client method passes down (async_client.rs 347-415;
\* get_json and get_binary fix GET in rest_client.rs)
MethodOf(op) ==
  CASE op \in {"dir", "stat", "open"} -> "GET"
    [] op \in {"create", "mkdirs", "rename", "create_symlink"} -> "PUT"
    [] op \in {"append", "concat"} -> "POST"
    [] OTHER -> "DELETE"

\* the HttpyClient method each client method runs an attempt with
EngineOf(op) ==
  CASE op \in {"dir", "stat"} -> "get_json"
    [] op = "open" -> "get_binary"
    [] op \in {"create", "append"} -> "post_binary"
    [] op \in {"mkdirs", "rename", "delete"} -> "op_json"
    [] OTHER -> "op_empty"

\* operations that carry a caller's payload (data_op)
DataOps == {"create", "append"}

\* the two-phase operations of the WebHDFS protocol
TwoPhaseOps == {"open", "create", "append"}

\* the metadata operations
MetadataOps == Ops \ TwoPhaseOps

\* file paths: an ordinary one and one whose path-and-query exceeds what
\* http::Uri accepts, so that Uri::builder().build() fails
LongPath == "/too-long"

Paths == {"/d", LongPath}

\* HdfsClient::path_and_query: the path-and-query bytes of a request
path_and_query(file_path, op) == [path |-> file_path, op |-> op_string(op)]

\* NameNode entrypoints (client configuration)
Entrypoint == [scheme |-> "http", authority |-> "nn1:50070"]

AltEntrypoint == [scheme |-> "http", authority |-> "nn2:50070"]

\* the NameNode a failover state stands for in an HA pair
NodeOf(s) == IF s = ALT THEN AltEntrypoint.authority ELSE Entrypoint.authority

\* NAT map of the client: authority -> authority
NatMapCfg ==
  [a \in {"dn.internal:1006", "nn1:50070", "nn2:50070"} |->
     CASE a = "dn.internal:1006" -> "localhost:11006"
       [] a = "nn1:50070" -> "localhost:50070"
       [] OTHER -> "localhost:50071"]

\* a client built without NAT entries (NatMapPtr::empty)
NatMapNone == [a \in {} |-> "-"]

\* ------------------------------------------------------------------------
\* Errors and results
\* ------------------------------------------------------------------------

\* a Location header: absent, not visible ASCII, not a URI, or a URI
NoPq == [path |-> "-", op |-> "-"]

NoLocation == [form |-> "absent", scheme |-> "-", authority |-> "-", pq |-> NoPq]

\* http::Uri, as its parts
Uri(scheme, authority, pq) == [scheme |-> scheme, authority |-> authority, pq |-> pq]

\* error.rs: struct Error { msg, cause }; exception is the exception name of
\* a RemoteException cause, status and location the fields of HttpRedirect
Error(cause, msg, exception) ==
  [cause |-> cause, msg |-> msg, exception |-> exception, status |-> 0,
   location |-> NoLocation]

NoError == Error("-", "-", "-")

\* error.rs: app_error!(generic ...)
app_error(msg) == Error("None", msg, "-")

\* error.rs: app_error!((cause=e) msg) = e.into_with(msg)
into_with(cause, msg) == Error(cause, msg, "-")

\* error.rs: From<X> for Error (error_conversions!): Error::anon(Cause::X)
anon(cause) == Error(cause, "-", "-")

\* error.rs: From<RemoteException> for Error
RemoteExceptionError(exception) == Error("RemoteException", "-", exception)

\* error.rs: Error::from_http_redirect
from_http_redirect(status, location) ==
  [cause |-> "HttpRedirect", msg |-> "-", exception |-> "-", status |-> status,
   location |-> location]

\* error.rs: Error::timeout_c / From<tokio::time::Elapsed>
TimeoutError == anon("Timeout")

\* Result<T>: Ok(v) or Err(e).  A binary stream is an Ok value that may carry
\* an error inside: val = "stream" with err the first error the stream yields
Ok(v) == [ok |-> TRUE, val |-> v, err |-> NoError]

Err(e) == [ok |-> FALSE, val |-> "-", err |-> e]

StreamOf(r) == [ok |-> TRUE, val |-> "stream", err |-> r.err]

\* the error a caller observes in a result, directly or through the stream
ObservedError(r) == r.err

\* a result that delivers what the caller asked for
Succeeded(r) == r.ok /\ r.err = NoError

\* ------------------------------------------------------------------------
\* HTTP responses (the environment's answers)
\* ------------------------------------------------------------------------

\* status codes: a success, a redirect and a failure
Statuses == {200, 307, 403}

\* http::StatusCode::is_redirection
is_redirection(status) == status >= 300 /\ status < 400

\* http::StatusCode::is_success
is_success(status) == status >= 200 /\ status < 300

\* Content-Type headers a server may send
ContentTypes ==
  {"absent", "application/json", "application/json;charset=utf-8",
   "application/json;charset=latin1", "application/octet-stream",
   "text/plain", "malformed"}

\* response bodies: no bytes; JSON of the type the operation expects; the
\* JSON of a RemoteExceptionResponse (by exception name); bytes that are
\* neither; a body whose transfer breaks
RemoteExceptions == {"StandbyException", "FileNotFoundException"}

Bodies == {"empty", "json", "bytes", "broken"} \cup RemoteExceptions

\* authorities a redirect may name: one in the NAT map, one not
DataNodes == {"dn.internal:1006", "dn2:1006"}

\* Location headers for a request with path-and-query pq
Locations(pq) ==
  {NoLocation}
    \cup {[form |-> f, scheme |-> "-", authority |-> "-", pq |-> NoPq] :
            f \in {"nonascii", "unparsable"}}
    \cup {[form |-> "uri", scheme |-> "http", authority |-> a, pq |-> pq] :
            a \in DataNodes}

\* the request could not be completed (hyper::Error)
TransportFailure ==
  [status |-> 0, ct |-> "absent", body |-> "empty", location |-> NoLocation]

\* every answer to a request with path-and-query pq: no answer at all; a
\* 2xx or 4xx with any content type and body; a 3xx with any Location and
\* either nothing else or a JSON error body
Responses(pq) ==
  {TransportFailure}
    \cup [status : {s \in Statuses : ~is_redirection(s)}, ct : ContentTypes,
          body : Bodies, location : {NoLocation}]
    \cup [status : {s \in Statuses : is_redirection(s)}, ct : {"absent"},
          body : {"empty"}, location : Locations(pq)]
    \cup [status : {s \in Statuses : is_redirection(s)},
          ct : {"application/json"}, body : RemoteExceptions,
          location : Locations(pq)]

\* the answer of a standby NameNode
StandbyResponse ==
  [status |-> 403, ct |-> "application/json", body |-> "StandbyException",
   location |-> NoLocation]

\* ------------------------------------------------------------------------
\* rest_client.rs
\* ------------------------------------------------------------------------

\* redirect_filter: a 3xx becomes an HttpRedirect error
redirect_filter(res) ==
  IF is_redirection(res.status)
  THEN IF res.location.form # "absent"
       THEN IF res.location.form = "nonascii"
            THEN Err(anon("HyperHeaderToStr"))
            ELSE Err(from_http_redirect(res.status, res.location))
       ELSE Err(app_error("Redirect without Location header"))
  ELSE Ok("response")

\* error_and_ct_filter: content_type_extractor
content_type_extractor(res) ==
  IF res.ct = "nonascii" THEN Err(anon("HyperHeaderToStr"))
  ELSE IF res.ct = "malformed" THEN Err(anon("MimeFromStr"))
  ELSE Ok(res.ct)

\* match_mimes looking at type and subtype only
match_mimes_essence(ct, ct_required) ==
  CASE ct # "absent" /\ ct_required = "JSON" ->
         ct \in {"application/json;charset=utf-8", "application/json",
                 "application/json;charset=latin1"}
    [] ct # "absent" /\ ct_required = "Binary" -> ct = "application/octet-stream"
    [] ct = "absent" /\ ct_required = "None" -> TRUE
    [] OTHER -> FALSE

\* error_and_ct_filter: match_mimes
match_mimes(ct, ct_required) ==
  CASE ct # "absent" /\ ct_required = "JSON" ->
         ct \in {"application/json;charset=utf-8", "application/json"}
    [] ct # "absent" /\ ct_required = "Binary" -> ct = "application/octet-stream"
    [] ct = "absent" /\ ct_required = "None" -> TRUE
    [] OTHER -> FALSE

\* error_and_ct_filter that does not read the body of a failure
error_and_ct_filter_unread(ct_required, res) ==
  LET ct == content_type_extractor(res) IN
  IF ~ct.ok THEN Err(ct.err)
  ELSE IF is_success(res.status)
  THEN IF match_mimes(ct.val, ct_required)
       THEN Ok("response")
       ELSE Err(app_error("Invald content type"))
  ELSE Err(app_error("Remote error w/o JSON content"))

\* error_and_ct_filter
error_and_ct_filter(ct_required, res) ==
  LET ct == content_type_extractor(res) IN
  IF ~ct.ok THEN Err(ct.err)
  ELSE IF is_success(res.status)
  THEN IF match_mimes(ct.val, ct_required)
       THEN Ok("response")
       ELSE Err(app_error("Invald content type"))
  ELSE IF match_mimes(ct.val, "JSON")
       THEN IF res.body = "broken"
            THEN Err(app_error("JSON-error aggregation error"))
            ELSE IF res.body \in RemoteExceptions
                 THEN Err(RemoteExceptionError(res.body))
                 ELSE Err(app_error("JSON-error deseriaization error"))
       ELSE Err(app_error("Remote error w/o JSON content"))

\* extract_json
extract_json(res) ==
  IF res.body = "broken" THEN Err(anon("Hyper"))
  ELSE IF res.body = "json" THEN Ok("json")
  ELSE Err(into_with("SerdeJson", "JSON deseriaization error"))

\* extract_binary: the body as a stream of chunks, read errors per chunk
extract_binary(res) ==
  IF res.body = "broken"
  THEN StreamOf(Err(into_with("Hyper", "Binary sream read error")))
  ELSE StreamOf(Ok("chunks"))

\* extract_empty
extract_empty(res) ==
  IF res.body = "broken" THEN Err(anon("Hyper"))
  ELSE IF res.body = "empty" THEN Ok("unit")
  ELSE Err(app_error("Unexpected non-empty response received, where empty is expected"))

\* the expected content type each HttpyClient method passes to
\* error_and_ct_filter
RCT(engine) ==
  CASE engine \in {"get_json", "op_json"} -> "JSON"
    [] engine = "get_binary" -> "Binary"
    [] OTHER -> "None"

\* the tail of get_json / op_json / post_binary / get_binary once
\* request_with_redirect has returned r (a response res or an error): the
\* content-type filter, then the decoder
finish(engine, r, res) ==
  LET filtered == IF r.ok THEN error_and_ct_filter(RCT(engine), res) ELSE r
      decoded ==
        IF ~filtered.ok THEN filtered
        ELSE CASE engine \in {"get_json", "op_json"} -> extract_json(res)
               [] engine = "get_binary" -> extract_binary(res)
               [] OTHER -> extract_empty(res)
  IN IF engine = "get_binary" THEN StreamOf(decoded) ELSE decoded

\* translate that never finds an entry
translate_nothing(natmap, uri) == Ok(uri)

\* translate assembling an http URI whatever the scheme was
translate_http(natmap, uri) ==
  IF uri.authority \in DOMAIN natmap
  THEN Ok(Uri("http", natmap[uri.authority], uri.pq))
  ELSE Ok(uri)

\* natmap.rs: NatMapPtr::translate / NatMap::translate
translate(natmap, uri) ==
  IF DOMAIN natmap = {} THEN Ok(uri)
  ELSE IF uri.authority # "-"
       THEN IF uri.authority \in DOMAIN natmap
            THEN Ok(Uri(uri.scheme, natmap[uri.authority], uri.pq))
            ELSE Ok(uri)
       ELSE Ok(uri)

\* handle_redirect passing on the error of a Location it cannot parse
handle_redirect_unparsed(r, natmap) ==
  IF r.ok THEN [go |-> FALSE, r |-> r, uri |-> Uri("-", "-", NoPq)]
  ELSE IF r.err.cause = "HttpRedirect" /\ r.err.location.form = "uri"
       THEN LET t == translate(natmap,
                       Uri(r.err.location.scheme, r.err.location.authority,
                           r.err.location.pq))
            IN [go |-> TRUE, r |-> Ok("response"), uri |-> t.val]
       ELSE [go |-> FALSE, r |-> r, uri |-> Uri("-", "-", NoPq)]

\* request_with_redirect: handle_redirect, up to the call of rf1.  Yields
\* the URI of the second request (go = TRUE) or the result to return
handle_redirect(r, natmap) ==
  IF r.ok THEN [go |-> FALSE, r |-> r, uri |-> Uri("-", "-", NoPq)]
  ELSE IF r.err.cause = "HttpRedirect"
       THEN IF r.err.location.form = "uri"
            THEN LET t == translate(natmap,
                            Uri(r.err.location.scheme, r.err.location.authority,
                                r.err.location.pq))
                 IN [go |-> TRUE, r |-> Ok("response"), uri |-> t.val]
            ELSE [go |-> FALSE,
                  r |-> Err(into_with("HttpInvalidUri",
                              "Cannot parse location URI returned by redirect")),
                  uri |-> Uri("-", "-", NoPq)]
       ELSE [go |-> FALSE, r |-> r, uri |-> Uri("-", "-", NoPq)]

\* ------------------------------------------------------------------------
\* async_client.rs: URI selection and the failover state machine
\* ------------------------------------------------------------------------

\* alt_entrypoint: None
NoEntrypoint == [scheme |-> "-", authority |-> "-"]

\* FOR::bind
bind(r, fostate) == [r |-> r, fostate |-> fostate]

\* uri that takes entrypoint in either state
uri_entrypoint(alt, fostate, pq) ==
  LET r == IF pq.path = LongPath
           THEN Err(into_with("Http", "Could not build URI"))
           ELSE Ok("uri")
  IN [r |-> r, uri |-> Uri(Entrypoint.scheme, Entrypoint.authority, pq),
      fostate |-> fostate]

\* HdfsClient::uri: the entrypoint of the state, then Uri::builder().build()
uri(alt, fostate, pq) ==
  LET ep == IF is_alt(fostate)
            THEN IF alt # NoEntrypoint THEN alt ELSE Entrypoint
            ELSE Entrypoint
      r == IF pq.path = LongPath
           THEN Err(into_with("Http", "Could not build URI"))
           ELSE Ok("uri")
  IN [r |-> r, uri |-> Uri(ep.scheme, ep.authority, pq), fostate |-> fostate]

\* HdfsClient::httpc
httpc(alt, fostate, pq) == uri(alt, fostate, pq)

\* is_standby_error taking every remote exception for a standby exception
is_standby_error_any(error) == error.cause = "RemoteException"

\* HdfsClient::is_standby_error
is_standby_error(error) ==
  error.cause = "RemoteException" /\ error.exception = "StandbyException"

\* failover_fsm failing over whether or not alt_entrypoint is configured
failover_fsm_unconfigured(alt, fostate, result) ==
  IF ~result.ok /\ is_standby_error(result.err)
  THEN [action |-> "FailOver", r |-> result, data |-> data_empty,
        fostate |-> next(fostate)]
  ELSE [action |-> "Proceed", r |-> result, data |-> data_empty,
        fostate |-> fostate]

\* HdfsClient::failover_fsm
failover_fsm(alt, fostate, result) ==
  IF ~result.ok /\ alt # NoEntrypoint /\ is_standby_error(result.err)
  THEN [action |-> "FailOver", r |-> result, data |-> data_empty,
        fostate |-> next(fostate)]
  ELSE [action |-> "Proceed", r |-> result, data |-> data_empty,
        fostate |-> fostate]

\* failover_fsm_d failing over without the recovered data
failover_fsm_d_nodata(alt, fostate, result, data_opt) ==
  IF ~result.ok /\ data_opt.some /\ alt # NoEntrypoint
       /\ is_standby_error(result.err)
  THEN [action |-> "FailOver", r |-> result, data |-> data_empty,
        fostate |-> next(fostate)]
  ELSE [action |-> "Proceed", r |-> result, data |-> data_empty,
        fostate |-> fostate]

\* HdfsClient::failover_fsm_d, on a DResult: result with its data_opt
failover_fsm_d(alt, fostate, result, data_opt) ==
  IF ~result.ok /\ data_opt.some /\ alt # NoEntrypoint
       /\ is_standby_error(result.err)
  THEN [action |-> "FailOver", r |-> result, data |-> data_opt.v,
        fostate |-> next(fostate)]
  ELSE [action |-> "Proceed", r |-> result, data |-> data_empty,
        fostate |-> fostate]

\* nod wrapping an empty payload instead of none
nod_empty(error) == [error |-> error, data_opt |-> Some(data_empty)]

\* data_op: nod, the ErrorD of a URI that could not be built
nod(error) == [error |-> error, data_opt |-> None]

\* ErrorD::lift (data_op: ecvt2)
lift(error) == [error |-> error, data_opt |-> None]

\* the data_opt of the ErrorD with which post_binary reports a failed
\* attempt: the payload when it has not been transmitted or the failure is
\* a standby exception, otherwise kept or dropped
ErrorD_data_opt(error, data, transmitted) ==
  IF ~transmitted \/ is_standby_error(error)
  THEN {Some(data)}
  ELSE {None, Some(data)}

\* the body of the second request of an attempt: new_get_like for get_json
\* and get_binary, new_post_like(uri, method, data) for the others
phase2_body(engine, data) ==
  IF engine \in {"get_json", "get_binary"} THEN data_empty ELSE data

\* ------------------------------------------------------------------------
\* State
\* ------------------------------------------------------------------------

VARIABLES
  alt_entrypoint,  \* HdfsClient.alt_entrypoint (NoEntrypoint when None)
  natmap,          \* HdfsClient.natmap
  ha,              \* the cluster is an HA pair with an active and a standby
  active,          \* the failover state that names the active NameNode
  swaps,           \* number of role swaps so far
  fostate,         \* SyncHdfsClient.fostate
  pc,              \* "idle"; "phase1" / "phase2": the request the operation
                   \* waits for; "done": the operation has returned its
                   \* FOResult, which the caller has not taken yet
  caller,          \* "sync" (SyncHdfsClient) or "async" (HdfsClient)
  op,              \* the operation
  pq,              \* its path-and-query
  payload,         \* the data the caller supplied
  start,           \* the failover state the operation was started with
  snap,            \* the operation's own failover state
  attempt,         \* attempts started
  hold,            \* the data the running attempt was given
  att,             \* outcome of each finished attempt
  log,             \* the requests sent, with the status of their answers
  result,          \* what the operation returned (pc = "done")
  lastSync,        \* HA pair: the NameNode that served the last sync call,
                   \* if it succeeded and the roles have not been swapped
                   \* since ("-" otherwise)
  prev,            \* lastSync as it was when the current sync call began
  served,          \* authority that served the last successful sync call
  nat_map,         \* NatMap.natmap of a translation on its own
  nat_uri,         \* the URI handed to translate
  nat_out,         \* what translate returned
  nat_pc,          \* "in": not translated yet; then the type whose
                   \* translate was called
  rc_engine,       \* the HttpyClient method that receives a final response
  rc_res,          \* the response
  rc_out,          \* what the method returned
  rc_pc,           \* "in": not classified yet; "out": classified
  file_len,        \* ReadHdfsFile.len
  file_pos,        \* ReadHdfsFile.pos
  file_pc,         \* "ready": no call under way; "reading": read is in its loop
  file_call,       \* the last call of the file: its arguments, pos before it
  file_rd,         \* the OPEN of the last read, its response body, the local pos
  file_ret,        \* what the last call returned
  file_clock,      \* time: waited by the running exec0, passed since the call
                   \* began, and the longest wait of an exec0 of the call
  ue_src,          \* the bytes a UriEncodingIterator iterates over
  ue_omit,         \* UriEncodingIterator.omit_slash
  ue_s,            \* UriEncodingIterator.s
  ue_i,            \* how many bytes UriEncodingIterator.i has yielded
  ue_out,          \* the bytes the iterator has yielded
  ue_pc,           \* "iter": next may be called; "end": it has returned None
  pe_bytes,        \* PathEncoder.path_and_query
  pe_left,         \* PathEncoder.path_and_query before the last extend
  pe_seg,          \* the path_seg of the last extend
  pe_n,            \* how many times extend was called
  pq_in,           \* the client's identity parameters, and file_path and op
  pq_args,         \* the Vec<OpArg> of the operation
  pq_out,          \* what HdfsClient::path_and_query returned
  pe_pc,           \* "path": a PathEncoder; "opts": an option builder; "done"
  wf,              \* WriteHdfsFile: how it was made, path, opts
  w_call,          \* the call on the write side: under way, or the last one
  w_srv,           \* the file on the server, and whether every answer so far
                   \* is one that WebHDFS prescribes
  w_hist,          \* what the calls since the first one have returned
  parked,          \* the locals of the future that is not being polled
  turn,            \* which of the two futures is being polled
  heard,           \* the answers each future has received
  cf_env,          \* WEBHDFS_CONFIG: unset, or the state of the file it names
  cf_local,        \* the state of webhdfs.toml in the current directory
  cf_user,         \* the state of .webhdfs.toml in the home directory
  cf_pc,           \* where read_config_opt is
  cf_read,         \* the locations whose file has been read
  cf_out           \* the Option read_config_opt has so far, or the panic

cfg == <<alt_entrypoint, natmap>>

cluster == <<ha, active, swaps>>

call == <<pc, caller, op, pq, payload, start, snap, attempt, hold, att, log, result>>

history == <<lastSync, prev, served>>

natv == <<nat_map, nat_uri, nat_out, nat_pc>>

rcv == <<rc_engine, rc_res, rc_out, rc_pc>>

filev == <<file_len, file_pos, file_pc, file_call, file_rd, file_ret, file_clock>>

uev == <<ue_src, ue_omit, ue_s, ue_i, ue_out, ue_pc>>

\* the state of uri_tools.rs on its own
pev == <<pe_bytes, pe_left, pe_seg, pe_n, pq_in, pq_args, pq_out, pe_pc>>

\* the state of config.rs on its own
confv == <<cf_env, cf_local, cf_user, cf_pc, cf_read, cf_out>>

beside == <<uev, pev, confv>>

\* what the client's operations leave alone
aside == <<natv, rcv, filev, beside>>

\* the write side of sync_client.rs
wv == <<wf, w_call, w_srv, w_hist>>

\* the futures of concurrent operations
cv == <<parked, turn, heard>>

\* the client, its cluster and the write side
client == <<cfg, cluster, fostate, call, history, wv, cv>>

vars == <<cfg, cluster, fostate, call, history, aside, wv, cv>>

NoResult == [r |-> Err(NoError), fostate |-> PRIMARY, data_opt |-> None, timeout |-> FALSE]

NoSummary == "-"

\* a translation that is not under way
NatIdle ==
  /\ nat_map = NatMapNone
  /\ nat_uri = Uri("-", "-", NoPq)
  /\ nat_out = Ok(Uri("-", "-", NoPq))
  /\ nat_pc = "off"

\* a classification that is not under way
RcIdle ==
  /\ rc_engine = "get_json"
  /\ rc_res = TransportFailure
  /\ rc_out = Err(NoError)
  /\ rc_pc = "off"

\* std::io::Result
IoOk(v) == [ok |-> TRUE, val |-> v, kind |-> "-"]

IoErr(kind) == [ok |-> FALSE, val |-> 0, kind |-> kind]

\* std::io::SeekFrom
Start(o) == [whence |-> "Start", o |-> o]

Current(o) == [whence |-> "Current", o |-> o]

End(o) == [whence |-> "End", o |-> o]

NoCall == [op |-> "none", from |-> Current(0), buf |-> 0, pos0 |-> 0]

NoRead == [offset |-> 0, length |-> 0, served |-> 0, sent |-> 0, chunks |-> 0, n |-> 0]

NoReturn == IoErr("-")

\* no exec0 has waited
NoClock == [wait |-> 0, total |-> 0, slowest |-> 0]

\* a file that is not open
FileIdle ==
  /\ file_len = 0
  /\ file_pos = 0
  /\ file_pc = "off"
  /\ file_call = NoCall
  /\ file_rd = NoRead
  /\ file_ret = NoReturn
  /\ file_clock = NoClock

\* UriEncodingIteratorState
Null == [tag |-> "Null", b0 |-> 0, b1 |-> 0]

C2(b0, b1) == [tag |-> "C2", b0 |-> b0, b1 |-> b1]

C1(b) == [tag |-> "C1", b0 |-> b, b1 |-> 0]

\* no iterator
EncIdle ==
  /\ ue_src = <<>>
  /\ ue_omit = FALSE
  /\ ue_s = Null
  /\ ue_i = 0
  /\ ue_out = <<>>
  /\ ue_pc = "off"

\* no identity parameter, no path, no operation
NoPqIn == [user_name |-> None, doas |-> None, dt |-> None, file_path |-> <<>>,
           op |-> "dir"]

PathIdle ==
  /\ pe_bytes = <<>>
  /\ pe_left = <<>>
  /\ pe_seg = <<>>
  /\ pe_n = 0
  /\ pq_in = NoPqIn
  /\ pq_args = <<>>
  /\ pq_out = <<>>
  /\ pe_pc = "off"

\* no configuration found
NoConfig == [some |-> FALSE, from |-> "-"]

\* no configuration search
ConfIdle ==
  /\ cf_env = "unset"
  /\ cf_local = "absent"
  /\ cf_user = "nohome"
  /\ cf_pc = "off"
  /\ cf_read = {}
  /\ cf_out = NoConfig

\* uri_tools.rs and config.rs on their own are not in use
BesideIdle == EncIdle /\ PathIdle /\ ConfIdle

\* no WriteHdfsFile
NoFile == [made |-> "none", path |-> "-", opts |-> <<>>]

\* no call on the write side
NoWrite == [op |-> "none", path |-> "-", bytes |-> <<>>, args |-> <<>>,
            a_opts |-> <<>>, ret |-> NoReturn, ok |-> FALSE, delivered |-> <<>>]

WriteIdle ==
  /\ wf = NoFile
  /\ w_call = NoWrite
  /\ w_srv = [stored |-> <<>>, appended |-> 0, honest |-> TRUE]
  /\ w_hist = [n |-> 0, allok |-> TRUE, created |-> FALSE, expect |-> <<>>,
               count |-> 0, retried |-> FALSE, left |-> PRIMARY, by |-> "-"]

\* the locals of a future that has not been made
NoLocals ==
  [pc |-> "idle", caller |-> "sync", op |-> "dir", pq |-> NoPq,
   payload |-> data_empty, start |-> PRIMARY, snap |-> PRIMARY, attempt |-> 0,
   hold |-> data_empty, att |-> <<>>, log |-> <<>>, result |-> NoResult]

\* no second future
ConcIdle ==
  /\ parked = NoLocals
  /\ turn = 1
  /\ heard = <<<<>>, <<>>>>

\* SyncHdfsClientBuilder::build: a client that has made no call
Fresh ==
  /\ swaps = 0
  /\ fostate = PRIMARY
  /\ pc = "idle"
  /\ caller = "sync"
  /\ op = "dir"
  /\ pq = NoPq
  /\ payload = data_empty
  /\ start = PRIMARY
  /\ snap = PRIMARY
  /\ attempt = 0
  /\ hold = data_empty
  /\ att = <<>>
  /\ log = <<>>
  /\ result = NoResult
  /\ lastSync = NoSummary
  /\ prev = NoSummary
  /\ served = Entrypoint.authority

\* a client and its cluster
Init ==
  /\ alt_entrypoint \in {NoEntrypoint, AltEntrypoint}
  /\ natmap \in {NatMapCfg, NatMapNone}
  /\ ha \in BOOLEAN
  /\ active \in (IF ha THEN FOState ELSE {PRIMARY})
  /\ Fresh
  /\ WriteIdle
  /\ ConcIdle
  /\ NatIdle
  /\ RcIdle
  /\ FileIdle
  /\ BesideIdle

\* a client that stays unused
ClientIdle ==
  /\ alt_entrypoint = NoEntrypoint
  /\ natmap = NatMapNone
  /\ ha = FALSE
  /\ active = PRIMARY
  /\ Fresh
  /\ WriteIdle
  /\ ConcIdle
\* ------------------------------------------------------------------------
\* sync_client.rs
\* ------------------------------------------------------------------------

\* with_timeout returning the state the dropped operation had reached
with_timeout_snap(self_fostate) == bind(Err(TimeoutError), snap)

\* SyncHdfsClient::exec / exec0: the result of an operation that timed out
\* while the client held self_fostate
with_timeout(self_fostate) == bind(Err(TimeoutError), self_fostate)

\* foresult forgetting to store the returned state
memoized_not(self_fostate, r) == self_fostate

\* SyncHdfsClient::foresult: the state assigned to self.fostate, from the
\* FOResult r of the operation
memoized(self_fostate, r) == r.fostate

\* ------------------------------------------------------------------------
\* Steps of an operation
\* ------------------------------------------------------------------------

\* HttpxClient::create_request + request_raw: the log with one more request
\* (via: the Location that led to it, for the second request of an attempt)
Send(lg, a, phase, fo, u, method, body, via) ==
  Append(lg, [attempt |-> a, phase |-> phase, fo |-> fo, scheme |-> u.scheme,
              authority |-> u.authority, method |-> method, pq |-> u.pq,
              body |-> body, via |-> via])

\* how the first request of an attempt was answered
Phase1Of(res) ==
  IF res = TransportFailure THEN "transport"
  ELSE IF is_redirection(res.status) THEN "redirect" ELSE "other"

\* authority of the last NameNode request of a log
LastNN(lg) ==
  LET nn == {i \in 1..Len(lg) : lg[i].phase = 1} IN
  IF nn = {} THEN "-"
  ELSE lg[CHOOSE i \in nn : \A j \in nn : j <= i].authority

\* data_op_b: cvt, Boolean -> bool
cvt(o, r) == IF o \in {"mkdirs", "rename", "delete"} /\ r.ok THEN Ok("bool") ELSE r

\* the operation's future completes with res
Complete(res) ==
  /\ pc' = "done"
  /\ result' = res

\* a client method is called (SyncHdfsClient::<o> with the memoized state,
\* or HdfsClient::<o> with a state of the caller's choice): with_failover
\* up to the first await
Call(o) ==
  /\ \E c \in {"sync", "async"}, p \in Paths, s0 \in FOState,
        d \in (IF o \in DataOps THEN Payloads ELSE {data_empty}) :
       /\ c = "sync" => s0 = fostate
       /\ caller' = c
       /\ op' = o
       /\ pq' = path_and_query(p, o)
       /\ payload' = d
       /\ start' = s0
       /\ snap' = s0
       /\ attempt' = 1
       /\ hold' = d
       /\ prev' = IF c = "sync" THEN lastSync ELSE NoSummary
       /\ LET h == httpc(alt_entrypoint, s0, path_and_query(p, o)) IN
          IF ~h.r.ok
          THEN /\ att' = <<[r |-> h.r, phase1 |-> "uri", status |-> 0,
                            data_opt |-> IF o \in DataOps
                                         THEN nod(h.r.err).data_opt ELSE None]>>
               /\ log' = <<>>
               /\ Complete([r |-> h.r, fostate |-> h.fostate,
                            data_opt |-> IF o \in DataOps
                                         THEN nod(h.r.err).data_opt ELSE None,
                            timeout |-> FALSE])
          ELSE /\ att' = <<>>
               /\ pc' = "phase1"
               /\ log' = Send(<<>>, 1, 1, h.fostate, h.uri, MethodOf(o),
                              data_empty, NoLocation)
               /\ UNCHANGED result
  /\ UNCHANGED <<cfg, cluster, fostate, lastSync, served, aside>>

dir ==
  /\ pc = "idle"
  /\ Call("dir")
  /\ UNCHANGED <<wv, cv>>

stat ==
  /\ pc = "idle"
  /\ Call("stat")
  /\ UNCHANGED <<wv, cv>>

open ==
  /\ pc = "idle"
  /\ Call("open")
  /\ UNCHANGED <<wv, cv>>

create ==
  /\ pc = "idle"
  /\ Call("create")
  /\ UNCHANGED <<wv, cv>>

append ==
  /\ pc = "idle"
  /\ Call("append")
  /\ UNCHANGED <<wv, cv>>

concat ==
  /\ pc = "idle"
  /\ Call("concat")
  /\ UNCHANGED <<wv, cv>>

mkdirs ==
  /\ pc = "idle"
  /\ Call("mkdirs")
  /\ UNCHANGED <<wv, cv>>

rename ==
  /\ pc = "idle"
  /\ Call("rename")
  /\ UNCHANGED <<wv, cv>>

create_symlink ==
  /\ pc = "idle"
  /\ Call("create_symlink")
  /\ UNCHANGED <<wv, cv>>

delete ==
  /\ pc = "idle"
  /\ Call("delete")
  /\ UNCHANGED <<wv, cv>>

\* with_failover failing over after every attempt
AttemptDone_again(r, phase1, transmitted, status) ==
  \E dopt \in (IF op \in DataOps /\ ~r.ok
               THEN ErrorD_data_opt(r.err, hold, transmitted) ELSE {None}) :
    LET fsm == IF op \in DataOps
               THEN failover_fsm_d(alt_entrypoint, snap, r, dopt)
               ELSE failover_fsm(alt_entrypoint, snap, cvt(op, r))
        h == httpc(alt_entrypoint, fsm.fostate, pq)
    IN /\ att' = Append(att, [r |-> r, phase1 |-> phase1, status |-> status,
                              data_opt |-> dopt])
       /\ IF attempt >= 1
          THEN IF fsm.action = "Proceed"
               THEN /\ Complete([r |-> fsm.r, fostate |-> fsm.fostate,
                                 data_opt |-> IF fsm.r.ok THEN None
                                              ELSE lift(fsm.r.err).data_opt,
                                 timeout |-> FALSE])
                    /\ UNCHANGED <<snap, attempt, hold, log>>
               ELSE /\ snap' = h.fostate
                    /\ attempt' = attempt + 1
                    /\ hold' = fsm.data
                    /\ IF ~h.r.ok
                       THEN /\ Complete([r |-> h.r, fostate |-> h.fostate,
                                         data_opt |-> nod(h.r.err).data_opt,
                                         timeout |-> FALSE])
                            /\ UNCHANGED log
                       ELSE /\ pc' = "phase1"
                            /\ log' = Send(log, attempt + 1, 1, h.fostate, h.uri,
                                           MethodOf(op), data_empty,
                                           NoLocation)
                            /\ UNCHANGED result
          ELSE /\ Complete([r |-> cvt(op, r), fostate |-> snap,
                            data_opt |-> dopt, timeout |-> FALSE])
               /\ UNCHANGED <<snap, attempt, hold, log>>

\* with_failover after the await of an attempt: r is what the HttpyClient
\* method returned, transmitted tells whether its second request was sent,
\* status is that of the last response the attempt received (0: none)
AttemptDone(r, phase1, transmitted, status) ==
  \E dopt \in (IF op \in DataOps /\ ~r.ok
               THEN ErrorD_data_opt(r.err, hold, transmitted) ELSE {None}) :
    LET fsm == IF op \in DataOps
               THEN failover_fsm_d(alt_entrypoint, snap, r, dopt)
               ELSE failover_fsm(alt_entrypoint, snap, cvt(op, r))
        h == httpc(alt_entrypoint, fsm.fostate, pq)
    IN /\ att' = Append(att, [r |-> r, phase1 |-> phase1, status |-> status,
                              data_opt |-> dopt])
       /\ IF attempt = 1
          THEN IF fsm.action = "Proceed"
               THEN /\ Complete([r |-> fsm.r, fostate |-> fsm.fostate,
                                 data_opt |-> IF fsm.r.ok THEN None
                                              ELSE lift(fsm.r.err).data_opt,
                                 timeout |-> FALSE])
                    /\ UNCHANGED <<snap, attempt, hold, log>>
               ELSE /\ snap' = h.fostate
                    /\ attempt' = 2
                    /\ hold' = fsm.data
                    /\ IF ~h.r.ok
                       THEN /\ Complete([r |-> h.r, fostate |-> h.fostate,
                                         data_opt |-> nod(h.r.err).data_opt,
                                         timeout |-> FALSE])
                            /\ UNCHANGED log
                       ELSE /\ pc' = "phase1"
                            /\ log' = Send(log, 2, 1, h.fostate, h.uri,
                                           MethodOf(op), data_empty,
                                           NoLocation)
                            /\ UNCHANGED result
          ELSE /\ Complete([r |-> cvt(op, r), fostate |-> snap,
                            data_opt |-> dopt, timeout |-> FALSE])
               /\ UNCHANGED <<snap, attempt, hold, log>>

\* answers the cluster may give to a request sent to authority a
Answers(a) ==
  IF ~ha THEN Responses(pq)
  ELSE IF a = NodeOf(next(active)) THEN {StandbyResponse}
  ELSE {res \in Responses(pq) : res.body # "StandbyException"}

\* request_with_redirect: the first request (rf0) is answered by res
phase1_answer(res) ==
  LET r0 == IF res = TransportFailure THEN Err(anon("Hyper"))
            ELSE redirect_filter(res)
      h == handle_redirect(r0, natmap)
  IN /\ IF h.go
        THEN /\ pc' = "phase2"
             /\ log' = Send(log, attempt, 2, snap, h.uri,
                            IF EngineOf(op) \in {"get_json", "get_binary"}
                            THEN "GET" ELSE MethodOf(op),
                            phase2_body(EngineOf(op), hold), res.location)
             /\ UNCHANGED <<snap, attempt, hold, att, result>>
        ELSE AttemptDone(finish(EngineOf(op), h.r, res), Phase1Of(res), FALSE,
                         res.status)
     /\ UNCHANGED <<cfg, cluster, fostate, caller, op, pq, payload, start, history,
                    aside>>

\* request_with_redirect: the second request (rf1) is answered by res
phase2_answer(res) ==
  /\ AttemptDone(finish(EngineOf(op),
                        IF res = TransportFailure THEN Err(anon("Hyper"))
                        ELSE Ok("response"), res),
                 "redirect", TRUE, res.status)
  /\ UNCHANGED <<cfg, cluster, fostate, caller, op, pq, payload, start, history,
                 aside>>

\* request_with_redirect: the cluster answers the first request
phase1_response ==
  /\ pc = "phase1"
  /\ \E res \in Answers(log[Len(log)].authority) : phase1_answer(res)
  /\ UNCHANGED <<wv, cv>>

\* request_with_redirect: the cluster answers the second request
phase2_response ==
  /\ pc = "phase2"
  /\ \E res \in Answers(log[Len(log)].authority) : phase2_answer(res)
  /\ UNCHANGED <<wv, cv>>

\* SyncHdfsClient::exec / exec0: the timeout fires while a request is in
\* flight; the operation is dropped
timeout ==
  /\ pc \in {"phase1", "phase2"}
  /\ caller = "sync"
  /\ Complete([r |-> with_timeout(fostate).r,
               fostate |-> with_timeout(fostate).fostate,
               data_opt |-> None, timeout |-> TRUE])
  /\ UNCHANGED <<cfg, cluster, fostate, caller, op, pq, payload, start, snap,
                 attempt, hold, att, log, history, aside, wv, cv>>

\* the locals of an operation are gone
gone ==
  /\ pc' = "idle"
  /\ caller' = "sync"
  /\ op' = "dir"
  /\ pq' = NoPq
  /\ payload' = data_empty
  /\ start' = PRIMARY
  /\ snap' = PRIMARY
  /\ attempt' = 0
  /\ hold' = data_empty
  /\ att' = <<>>
  /\ log' = <<>>
  /\ result' = NoResult
  /\ prev' = NoSummary

\* the caller of HdfsClient::<op> drops the future while a request is in
\* flight: the future holds the snapshot and the payload, and nothing else
\* refers to them
drop ==
  /\ pc \in {"phase1", "phase2"}
  /\ caller = "async"
  /\ gone
  /\ UNCHANGED <<cfg, cluster, fostate, lastSync, served, aside, wv, cv>>

\* the caller takes the result: SyncHdfsClient::foresult memoizes the state
\* (an async caller keeps the returned state itself); the operation's
\* locals are gone
split ==
  /\ IF caller = "sync"
     THEN /\ fostate' = memoized(fostate, result)
          /\ lastSync' = IF ha /\ Succeeded(result.r) THEN LastNN(log) ELSE NoSummary
          /\ served' = IF Succeeded(result.r) THEN LastNN(log) ELSE served
     ELSE UNCHANGED <<fostate, lastSync, served>>
  /\ gone
  /\ UNCHANGED <<cfg, cluster, aside>>

\* the operation returns to its caller
foresult ==
  /\ pc = "done"
  /\ split
  /\ UNCHANGED <<wv, cv>>

\* the HA pair swaps its roles while the client is idle
swap_roles ==
  /\ pc = "idle"
  /\ ha
  /\ swaps < MaxSwaps
  /\ active' = next(active)
  /\ swaps' = swaps + 1
  /\ lastSync' = NoSummary
  /\ UNCHANGED <<cfg, ha, fostate, call, prev, served, aside, wv, cv>>

Next ==
  \/ dir
  \/ stat
  \/ open
  \/ create
  \/ append
  \/ concat
  \/ mkdirs
  \/ rename
  \/ create_symlink
  \/ delete
  \/ phase1_response
  \/ phase2_response
  \/ timeout
  \/ drop
  \/ foresult
  \/ swap_roles

Spec == Init /\ [][Next]_vars

\* every request completes: a request that was sent is answered
\* a client with a NAT map that has made no call
InitLive == Init /\ natmap = NatMapCfg

\* the operations of a client, one after the other
NextLive ==
  \/ dir
  \/ stat
  \/ open
  \/ create
  \/ append
  \/ concat
  \/ mkdirs
  \/ rename
  \/ create_symlink
  \/ delete
  \/ phase1_response
  \/ phase2_response
  \/ timeout
  \/ drop

SpecLive ==
  /\ InitLive
  /\ [][NextLive]_vars
  /\ WF_vars(phase1_response)
  /\ WF_vars(phase2_response)

TypeOK ==
  /\ fostate \in FOState
  /\ pc \in {"idle", "phase1", "phase2", "done"}
  /\ attempt \in 0..2
  /\ Len(log) <= 4
  /\ Len(att) <= 2

\* ------------------------------------------------------------------------
\* natmap.rs on its own: translate applied to any map and any URI
\* ------------------------------------------------------------------------

\* NatMapPtr::new: no pointer for an empty map
NatMapPtr_new(nm) == IF DOMAIN nm = {} THEN None ELSE Some(nm)

\* NatMapPtr::translate
NatMapPtr_translate(ptr, u) == IF ptr.some THEN translate(ptr.v, u) ELSE Ok(u)

\* keys and values of NAT maps: a host with its port and the host alone
NatKeys == {"dn.internal:1006", "dn.internal"}

NatValues == {"localhost:11006", "localhost:11007"}

NatMaps == UNION {[k -> NatValues] : k \in SUBSET NatKeys}

\* URIs: absolute ones, a path on its own (no scheme, no authority) and an
\* authority on its own
NatUris ==
  {Uri(sc, a, q) : sc \in {"http", "https"},
                   a \in NatKeys \cup {"dn2:1006"},
                   q \in {path_and_query("/d", o) : o \in {"open", "create"}}}
    \cup {Uri("-", "-", path_and_query("/d", o)) : o \in {"open", "create"}}
    \cup {Uri("-", a, NoPq) : a \in NatKeys \cup {"dn2:1006"}}

InitNat ==
  /\ ClientIdle
  /\ RcIdle
  /\ FileIdle
  /\ BesideIdle
  /\ nat_map \in NatMaps
  /\ nat_uri \in NatUris
  /\ nat_out = Ok(Uri("-", "-", NoPq))
  /\ nat_pc = "in"

\* NatMap::translate is called
NatMap_translate ==
  /\ nat_pc = "in"
  /\ nat_out' = translate(nat_map, nat_uri)
  /\ nat_pc' = "NatMap"
  /\ UNCHANGED <<client, nat_map, nat_uri, rcv, filev, beside>>

\* NatMapPtr::translate is called on the pointer made of the map
NatMapPtr_translate_call ==
  /\ nat_pc = "in"
  /\ nat_out' = NatMapPtr_translate(NatMapPtr_new(nat_map), nat_uri)
  /\ nat_pc' = "NatMapPtr"
  /\ UNCHANGED <<client, nat_map, nat_uri, rcv, filev, beside>>

NextNat ==
  \/ NatMap_translate
  \/ NatMapPtr_translate_call

SpecNat == InitNat /\ [][NextNat]_vars

\* ------------------------------------------------------------------------
\* rest_client.rs on its own: a final response reaches an HttpyClient method
\* ------------------------------------------------------------------------

\* statuses of final responses
RestStatuses == Statuses \cup {201, 500}

\* Content-Type headers, one of them not a string
RestContentTypes == ContentTypes \cup {"nonascii"}

RestResponses ==
  [status : RestStatuses, ct : RestContentTypes, body : Bodies,
   location : {NoLocation}]

InitRest ==
  /\ ClientIdle
  /\ NatIdle
  /\ FileIdle
  /\ BesideIdle
  /\ rc_engine = "get_json"
  /\ rc_res \in RestResponses
  /\ rc_out = Err(NoError)
  /\ rc_pc = "in"

\* request_with_redirect has returned rc_res to the method: the rest of it
method_tail(engine) ==
  /\ rc_pc = "in"
  /\ rc_engine' = engine
  /\ rc_out' = finish(engine, Ok("response"), rc_res)
  /\ rc_pc' = "out"
  /\ UNCHANGED <<client, natv, rc_res, filev, beside>>

HttpyClient_get_json ==
  /\ rc_out = Err(NoError)
  /\ method_tail("get_json")

HttpyClient_get_binary ==
  /\ rc_out = Err(NoError)
  /\ method_tail("get_binary")

HttpyClient_post_binary ==
  /\ rc_out = Err(NoError)
  /\ method_tail("post_binary")

HttpyClient_op_json ==
  /\ rc_out = Err(NoError)
  /\ method_tail("op_json")

HttpyClient_op_empty ==
  /\ rc_out = Err(NoError)
  /\ method_tail("op_empty")

NextRest ==
  \/ HttpyClient_get_json
  \/ HttpyClient_get_binary
  \/ HttpyClient_post_binary
  \/ HttpyClient_op_json
  \/ HttpyClient_op_empty

SpecRest == InitRest /\ [][NextRest]_vars

\* ------------------------------------------------------------------------
\* sync_client.rs: ReadHdfsFile
\* ------------------------------------------------------------------------

\* i64::MIN, i64::MAX and u64::MAX
I64Min == -(2^(IntBits - 1))

I64Max == 2^(IntBits - 1) - 1

U64Max == 2^IntBits - 1

\* i64::checked_add that wraps around
checked_add_wrapping(a, b) ==
  [some |-> TRUE, val |-> ((a + b - I64Min) % (2^IntBits)) + I64Min]

\* i64::checked_add
checked_add(a, b) ==
  IF a + b \in I64Min..I64Max
  THEN [some |-> TRUE, val |-> a + b]
  ELSE [some |-> FALSE, val |-> 0]

\* u64 -> i64 try_into, its error mapped to "offset too big"
try_into_i64(u) == IF u <= I64Max THEN IoOk(u) ELSE IoErr("InvalidInput")

\* i64 as u64
as_u64(i) == i % (2^IntBits)

\* seek: offset that stops at the start of the file
offset_clamped(pos, o, len) ==
  LET p == checked_add(pos, o) IN
  IF p.some /\ p.val < 0 THEN IoOk(0)
  ELSE IF p.some /\ p.val <= len THEN IoOk(p.val)
  ELSE IoOk(pos)

\* seek: fn offset
offset(pos, o, len) ==
  LET p == checked_add(pos, o) IN
  IF p.some /\ p.val < 0 THEN IoErr("InvalidInput")
  ELSE IF p.some /\ p.val <= len THEN IoOk(p.val)
  ELSE IoOk(pos)

\* seek: the match on SeekFrom, the value assigned to self.pos
seek_match(pos, len, from) ==
  CASE from.whence = "Current" /\ from.o = 0 -> IoOk(pos)
    [] from.whence = "Current" /\ from.o # 0 -> offset(pos, from.o, len)
    [] from.whence = "Start" /\ from.o = 0 -> IoOk(0)
    [] from.whence = "Start" /\ from.o # 0 ->
         LET o == try_into_i64(from.o) IN
         IF o.ok THEN offset(0, o.val, len) ELSE o
    [] from.whence = "End" /\ from.o = 0 -> IoOk(len)
    [] from.whence = "End" /\ from.o # 0 -> offset(len, from.o, len)

\* seek assigning the position whatever the match gave
seek_assign_always(pos, r) == r.val

\* seek: self.pos = match pos { .. }?, the assignment after the ?
seek_assign(pos, r) == IF r.ok THEN r.val ELSE pos

\* the arguments of seek
SeekFroms ==
  {Start(o) : o \in 0..U64Max}
    \cup {Current(o) : o \in I64Min..I64Max}
    \cup {End(o) : o \in I64Min..I64Max}

\* <&mut [u8] as Write>::write: the bytes that fit
write_count(chunk_len, room) == IF chunk_len <= room THEN chunk_len ELSE room

\* the items of the stream, and exec0 running out of time
Chunk(c) == [kind |-> "chunk", len |-> c]

StreamEnd == [kind |-> "end", len |-> 0]

StreamError == [kind |-> "error", len |-> 0]

Elapsed == [kind |-> "elapsed", len |-> 0]

\* durations of a call from here on are not told apart
MaxDuration == default_timeout + 1

\* exec0 with one timer for the whole call: it runs out once the time since
\* the call began reaches the timeout
elapsed_since_call(clock) == clock.total >= default_timeout

\* exec0: tokio::time::timeout(timeout, f) runs out once f has been
\* waited for for the timeout; each exec0 makes a timer of its own
elapsed(clock) == clock.wait >= default_timeout

\* an exec0 begins after the one before it returned an item
rearm(clock) == [clock EXCEPT !.wait = 0]

\* an exec0 that waits w from the start of a call
first_wait(w) == [wait |-> w, total |-> w, slowest |-> w]

\* read: a loop that is left with the first chunk
read_step_first(pos, n, buf, item) ==
  CASE item.kind = "chunk" ->
         [pos |-> pos + item.len, n |-> n + write_count(item.len, buf - n),
          brk |-> TRUE, ret |-> IoOk(n + write_count(item.len, buf - n))]
    [] item.kind = "error" ->
         [pos |-> pos, n |-> n, brk |-> TRUE, ret |-> IoErr("Other")]
    [] item.kind = "end" ->
         [pos |-> pos, n |-> n, brk |-> TRUE, ret |-> IoOk(n)]
    [] item.kind = "elapsed" ->
         [pos |-> pos, n |-> n, brk |-> TRUE, ret |-> IoErr("TimedOut")]

\* read: one turn of the loop; pos is self.pos, n the local pos
read_step(pos, n, buf, item) ==
  CASE item.kind = "chunk" ->
         [pos |-> pos + item.len, n |-> n + write_count(item.len, buf - n),
          brk |-> FALSE, ret |-> NoReturn]
    [] item.kind = "error" ->
         [pos |-> pos, n |-> n, brk |-> TRUE, ret |-> IoErr("Other")]
    [] item.kind = "end" ->
         [pos |-> pos, n |-> n, brk |-> TRUE, ret |-> IoOk(n)]
    [] item.kind = "elapsed" ->
         [pos |-> pos, n |-> n, brk |-> TRUE, ret |-> IoErr("TimedOut")]

\* save_stream: one turn of the loop; short: the output took less than the
\* chunk (write_bytes: "Short write"); n counts the bytes written
save_stream_step(pos, n, short, item) ==
  CASE item.kind = "chunk" /\ short ->
         [pos |-> pos, n |-> n, brk |-> TRUE, ret |-> IoErr("Other")]
    [] item.kind = "chunk" /\ ~short ->
         [pos |-> pos, n |-> n + item.len, brk |-> FALSE, ret |-> NoReturn]
    [] item.kind = "error" ->
         [pos |-> pos, n |-> n, brk |-> TRUE, ret |-> IoErr("Other")]
    [] item.kind = "end" ->
         [pos |-> pos, n |-> n, brk |-> TRUE, ret |-> IoOk(0)]
    [] item.kind = "elapsed" ->
         [pos |-> pos, n |-> n, brk |-> TRUE, ret |-> IoErr("TimedOut")]

\* ReadHdfsFile::open has returned a file of some length
InitFile ==
  /\ ClientIdle
  /\ NatIdle
  /\ RcIdle
  /\ BesideIdle
  /\ file_len \in 0..I64Max
  /\ file_pos = 0
  /\ file_pc = "ready"
  /\ file_call = NoCall
  /\ file_rd = NoRead
  /\ file_ret = NoReturn
  /\ file_clock = NoClock

Others == <<client, natv, rcv, beside>>

\* Seek::seek
ReadHdfsFile_seek ==
  /\ file_pc = "ready"
  /\ \E from \in SeekFroms :
       LET r == seek_match(file_pos, file_len, from) IN
       /\ file_call' = [op |-> "seek", from |-> from, buf |-> 0, pos0 |-> file_pos]
       /\ file_pos' = seek_assign(file_pos, r)
       /\ file_ret' = IF r.ok THEN IoOk(as_u64(r.val)) ELSE r
  /\ file_rd' = NoRead
  /\ file_clock' = NoClock
  /\ UNCHANGED <<file_len, file_pc, Others>>

\* SyncHdfsClient::open under exec0: the OPEN is answered after w by a body
\* of some length, or fails after w, or is not answered within the timeout
open_under_exec0(o, offs, len, b, w, opened, body) ==
  /\ file_call' = [op |-> o, from |-> Current(0), buf |-> b, pos0 |-> file_pos]
  /\ file_rd' = [offset |-> offs, length |-> len, served |-> body,
                 sent |-> 0, chunks |-> 0, n |-> 0]
  /\ file_clock' = first_wait(w)
  /\ file_pc' = IF opened /\ ~elapsed(first_wait(w)) THEN "reading" ELSE "ready"
  /\ file_ret' = IF elapsed(first_wait(w)) THEN IoErr("TimedOut")
                 ELSE IF opened THEN NoReturn ELSE IoErr("Other")

\* Read::read up to its loop
ReadHdfsFile_read ==
  /\ file_pc = "ready"
  /\ \E b \in 0..MaxBuf, opened \in BOOLEAN, body \in 0..MaxServed,
        w \in 0..default_timeout :
       /\ file_pos + body <= I64Max
       /\ (~opened \/ w = default_timeout) => body = 0
       /\ w = default_timeout => ~opened
       /\ open_under_exec0("read", file_pos, b, b, w, opened, body)
  /\ UNCHANGED <<file_len, file_pos, Others>>

\* SyncHdfsClient::get_file up to the loop of save_stream, on the file's
\* client: OpenOptions::new() asks for the whole file
SyncHdfsClient_get_file ==
  /\ file_pc = "ready"
  /\ \E opened \in BOOLEAN, body \in {0, MaxServed}, w \in 0..default_timeout :
       /\ (~opened \/ w = default_timeout) => body = 0
       /\ w = default_timeout => ~opened
       /\ open_under_exec0("get_file", 0, 0, 0, w, opened, body)
  /\ UNCHANGED <<file_len, file_pos, Others>>

\* time passes while an exec0 waits for the next item of the stream
tick ==
  /\ file_pc = "reading"
  /\ ~elapsed(file_clock)
  /\ file_clock' = [wait |-> file_clock.wait + 1,
                    total |-> IF file_clock.total < MaxDuration
                              THEN file_clock.total + 1 ELSE file_clock.total,
                    slowest |-> IF file_clock.wait + 1 > file_clock.slowest
                                THEN file_clock.wait + 1 ELSE file_clock.slowest]
  /\ UNCHANGED <<file_len, file_pos, file_pc, file_call, file_rd, file_ret, Others>>

\* the loop of read or of save_stream takes what its exec0 returned
loop(item, short) ==
  LET s == IF file_call.op = "read"
           THEN read_step(file_pos, file_rd.n, file_call.buf, item)
           ELSE save_stream_step(file_pos, file_rd.n, short, item) IN
  /\ file_pos' = s.pos
  /\ file_rd' = [file_rd EXCEPT !.n = s.n, !.sent = @ + item.len,
                                !.chunks = @ + (IF item.kind = "chunk" THEN 1 ELSE 0)]
  /\ file_pc' = IF s.brk THEN "ready" ELSE "reading"
  /\ file_ret' = s.ret
  /\ file_clock' = IF s.brk THEN file_clock ELSE rearm(file_clock)
  /\ UNCHANGED <<file_len, file_call, Others>>

\* the stream delivers a chunk of the body within the timeout
stream_chunk ==
  /\ file_pc = "reading"
  /\ ~elapsed(file_clock)
  /\ \E c \in 1..MaxChunk,
        short \in (IF file_call.op = "read" THEN {FALSE} ELSE BOOLEAN) :
       /\ file_rd.sent + c <= file_rd.served
       /\ loop(Chunk(c), short)

\* the stream ends after the whole body, within the timeout
stream_end ==
  /\ file_pc = "reading"
  /\ ~elapsed(file_clock)
  /\ file_rd.sent = file_rd.served
  /\ loop(StreamEnd, FALSE)

\* the stream delivers an error within the timeout
stream_error ==
  /\ file_pc = "reading"
  /\ ~elapsed(file_clock)
  /\ loop(StreamError, FALSE)

\* the stream delivers nothing within the timeout
stream_elapsed ==
  /\ file_pc = "reading"
  /\ elapsed(file_clock)
  /\ loop(Elapsed, FALSE)

NextFile ==
  \/ ReadHdfsFile_seek
  \/ ReadHdfsFile_read
  \/ SyncHdfsClient_get_file
  \/ tick
  \/ stream_chunk
  \/ stream_end
  \/ stream_error
  \/ stream_elapsed

SpecFile == InitFile /\ [][NextFile]_vars

\* ------------------------------------------------------------------------
\* uri_tools.rs: UriEncodingIterator
\* ------------------------------------------------------------------------

\* UNRESERVED_BM: the four u64 words as sixteen 16-bit words, lowest first
UNRESERVED_BM ==
  <<0, 0, 24576, 1023, 65534, 34815, 65534, 18431, 0, 0, 0, 0, 0, 0, 0, 0>>

\* is_unreserved: bit ch % 64 of word ch / 64
is_unreserved(ch) == (UNRESERVED_BM[(ch \div 16) + 1] \div (2^(ch % 16))) % 2 # 0

\* hex_from_digit with lowercase letters
hex_from_digit_lower(d) == IF d < 10 THEN 48 + d ELSE 97 + d - 10

\* hex_from_digit: b'0' + d or b'A' + d - 10
hex_from_digit(d) == IF d < 10 THEN 48 + d ELSE 65 + d - 10

\* next: a byte is escaped unless it is unreserved or a kept slash
escaped(b, omit_slash) == ~is_unreserved(b) /\ ~(b = 47 /\ omit_slash)

\* next: the state that holds the digits of the low nibble first
digits_low_first(b) ==
  C2(hex_from_digit(b % 16), hex_from_digit((b \div 16) % 16))

\* next: the state that holds the two digits of an escaped byte,
\* C2(hex_from_digit((b >> 4) & 0x0f), hex_from_digit(b & 0x0f))
digits(b) == C2(hex_from_digit((b \div 16) % 16), hex_from_digit(b % 16))

\* Iterator::next: the new state, the new count of consumed bytes and the
\* item (some = FALSE: None)
UriEncodingIterator_next(st, i, src, omit_slash) ==
  CASE st.tag = "C2" -> [s |-> C1(st.b1), i |-> i, some |-> TRUE, v |-> st.b0]
    [] st.tag = "C1" -> [s |-> Null, i |-> i, some |-> TRUE, v |-> st.b0]
    [] st.tag = "Null" ->
         IF i < Len(src)
         THEN IF escaped(src[i + 1], omit_slash)
              THEN [s |-> digits(src[i + 1]), i |-> i + 1, some |-> TRUE, v |-> 37]
              ELSE [s |-> Null, i |-> i + 1, some |-> TRUE, v |-> src[i + 1]]
         ELSE [s |-> Null, i |-> i, some |-> FALSE, v |-> 0]

\* bytes of interest: a / % 2 F space + ? and a byte above 127
SomeBytes == {97, 47, 37, 50, 70, 32, 43, 63, 208}

\* u8
Bytes == 0..255

\* the strings the encoder is given: every single byte, and the strings of
\* bytes of interest up to MaxStrLen
EncInputs ==
  {<<b>> : b \in Bytes} \cup UNION {[1..n -> SomeBytes] : n \in 0..MaxStrLen}

\* uri_part_encoder_iter(arg, omit_slash)
InitEnc ==
  /\ ClientIdle
  /\ NatIdle
  /\ RcIdle
  /\ FileIdle
  /\ PathIdle
  /\ ConfIdle
  /\ ue_src \in EncInputs
  /\ ue_omit \in BOOLEAN
  /\ ue_s = Null
  /\ ue_i = 0
  /\ ue_out = <<>>
  /\ ue_pc = "iter"

\* the consumer of the iterator (Vec::extend, collect) calls next
Iterator_next ==
  /\ ue_pc = "iter"
  /\ LET r == UriEncodingIterator_next(ue_s, ue_i, ue_src, ue_omit) IN
     /\ ue_s' = r.s
     /\ ue_i' = r.i
     /\ ue_out' = IF r.some THEN Append(ue_out, r.v) ELSE ue_out
     /\ ue_pc' = IF r.some THEN "iter" ELSE "end"
  /\ UNCHANGED <<client, natv, rcv, filev,
                 ue_src, ue_omit, pev, confv>>

NextEnc == Iterator_next

SpecEnc == InitEnc /\ [][NextEnc]_vars

\* ------------------------------------------------------------------------
\* uri_tools.rs: PathEncoder and QueryEncoder; HdfsClient::path_and_query
\* ------------------------------------------------------------------------

\* str::bytes of the string literals of op.rs, uri_tools.rs and
\* async_client.rs
bytes(s) ==
  CASE s = "user.name" -> <<117, 115, 101, 114, 46, 110, 97, 109, 101>>
    [] s = "doas" -> <<100, 111, 97, 115>>
    [] s = "delegation" -> <<100, 101, 108, 101, 103, 97, 116, 105, 111, 110>>
    [] s = "op" -> <<111, 112>>
    [] s = "offset" -> <<111, 102, 102, 115, 101, 116>>
    [] s = "length" -> <<108, 101, 110, 103, 116, 104>>
    [] s = "buffersize" -> <<98, 117, 102, 102, 101, 114, 115, 105, 122, 101>>
    [] s = "overwrite" -> <<111, 118, 101, 114, 119, 114, 105, 116, 101>>
    [] s = "blocksize" -> <<98, 108, 111, 99, 107, 115, 105, 122, 101>>
    [] s = "replication" -> <<114, 101, 112, 108, 105, 99, 97, 116, 105, 111, 110>>
    [] s = "permission" -> <<112, 101, 114, 109, 105, 115, 115, 105, 111, 110>>
    [] s = "sources" -> <<115, 111, 117, 114, 99, 101, 115>>
    [] s = "destination" -> <<100, 101, 115, 116, 105, 110, 97, 116, 105, 111, 110>>
    [] s = "createParent" -> <<99, 114, 101, 97, 116, 101, 80, 97, 114, 101, 110, 116>>
    [] s = "recursive" -> <<114, 101, 99, 117, 114, 115, 105, 118, 101>>
    [] s = "true" -> <<116, 114, 117, 101>>
    [] s = "false" -> <<102, 97, 108, 115, 101>>
    [] s = "LISTSTATUS" -> <<76, 73, 83, 84, 83, 84, 65, 84, 85, 83>>
    [] s = "GETFILESTATUS" -> <<71, 69, 84, 70, 73, 76, 69, 83, 84, 65, 84, 85, 83>>
    [] s = "OPEN" -> <<79, 80, 69, 78>>
    [] s = "CREATE" -> <<67, 82, 69, 65, 84, 69>>
    [] s = "APPEND" -> <<65, 80, 80, 69, 78, 68>>
    [] s = "CONCAT" -> <<67, 79, 78, 67, 65, 84>>
    [] s = "MKDIRS" -> <<77, 75, 68, 73, 82, 83>>
    [] s = "RENAME" -> <<82, 69, 78, 65, 77, 69>>
    [] s = "CREATESYMLINK" -> <<67, 82, 69, 65, 84, 69, 83, 89, 77, 76, 73, 78, 75>>
    [] OTHER -> <<68, 69, 76, 69, 84, 69>>

\* const SVC_MOUNT_POINT: "/webhdfs/v1"
SVC_MOUNT_POINT == <<47, 119, 101, 98, 104, 100, 102, 115, 47, 118, 49>>

\* the bytes uri_part_encoder_iter(arg, omit_slash) yields until None
RECURSIVE collect(_, _, _, _)
collect(st, i, src, omit_slash) ==
  LET r == UriEncodingIterator_next(st, i, src, omit_slash) IN
  IF r.some THEN <<r.v>> \o collect(r.s, r.i, src, omit_slash) ELSE <<>>

\* uri_part_encoder_iter
uri_part_encoder_iter(arg, omit_slash) == collect(Null, 0, arg, omit_slash)

\* format!("{}", v) of a non-negative integer
RECURSIVE decimal(_)
decimal(n) ==
  IF n < 10 THEN <<48 + n>> ELSE decimal(n \div 10) \o <<48 + (n % 10)>>

\* format!("{}", v) of an i64
format(v) == IF v < 0 THEN <<45>> \o decimal(0 - v) ELSE decimal(v)

\* QueryEncoder { path_and_query, qm_added }
QueryEncoder(path, qm) == [path_and_query |-> path, qm_added |-> qm]

\* pfx pushing '&' whether or not a '?' was pushed
pfx_amp(qe) == QueryEncoder(Append(qe.path_and_query, 38), TRUE)

\* QueryEncoder::pfx
pfx(qe) ==
  IF ~qe.qm_added
  THEN QueryEncoder(Append(qe.path_and_query, 63), TRUE)
  ELSE QueryEncoder(Append(qe.path_and_query, 38), qe.qm_added)

\* add_pv, add_pi, add_pb, add_po: pfx, the encoded name, '=', the value
add_p(qe, p, value) ==
  LET q == pfx(qe) IN
  QueryEncoder(q.path_and_query \o uri_part_encoder_iter(p, FALSE) \o <<61>>
                 \o value, q.qm_added)

\* QueryEncoder::add_pv
add_pv(qe, p, v) == add_p(qe, p, uri_part_encoder_iter(v, FALSE))

\* QueryEncoder::add_pi
add_pi(qe, p, v) == add_p(qe, p, format(v))

\* QueryEncoder::add_pb
add_pb(qe, p, v) == add_p(qe, p, IF v THEN bytes("true") ELSE bytes("false"))

\* add_po rendering the value as add_pi does
add_po_decimal(qe, p, v) == add_p(qe, p, format(v))

\* QueryEncoder::add_po: (v & 0o0700) >> 6, (v & 0o0070) >> 3, v & 0o0007
add_po(qe, p, v) ==
  add_p(qe, p, format((v \div 64) % 8) \o format((v \div 8) % 8) \o format(v % 8))

\* QueryEncoder::result
QueryEncoder_result(qe) == qe.path_and_query

\* PathEncoder::empty
PathEncoder_empty == <<>>

\* PathEncoder::extend: the match on (last byte, first byte), then the
\* segment encoded with '/' kept
extend(path, path_seg) ==
  LET joint ==
        IF path # <<>> /\ path_seg # <<>>
        THEN IF path[Len(path)] = 47 /\ path_seg[1] = 47
             THEN SubSeq(path, 1, Len(path) - 1)
             ELSE IF path[Len(path)] # 47 /\ path_seg[1] # 47
                  THEN Append(path, 47)
                  ELSE path
        ELSE path
  IN joint \o uri_part_encoder_iter(path_seg, TRUE)

\* PathEncoder::new
PathEncoder_new(base_path) == extend(PathEncoder_empty, base_path)

\* PathEncoder::query
PathEncoder_query(path) == QueryEncoder(path, FALSE)

\* enum OpArg: the tag and the value, which is an integer (i), a bool (b)
\* or a String or Vec<String> (s)
OpArg(tag, i, b, s) == [tag |-> tag, i |-> i, b |-> b, s |-> s]

\* Vec<String>::join(",")
RECURSIVE join(_)
join(v) ==
  IF v = <<>> THEN <<>>
  ELSE IF Len(v) = 1 THEN v[1] ELSE v[1] \o <<44>> \o join(Tail(v))

\* OpArg::add_to_url
add_to_url(arg, qe) ==
  CASE arg.tag = "Offset" -> add_pi(qe, bytes("offset"), arg.i)
    [] arg.tag = "Length" -> add_pi(qe, bytes("length"), arg.i)
    [] arg.tag = "BufferSize" -> add_pi(qe, bytes("buffersize"), arg.i)
    [] arg.tag = "Overwrite" -> add_pb(qe, bytes("overwrite"), arg.b)
    [] arg.tag = "Blocksize" -> add_pi(qe, bytes("blocksize"), arg.i)
    [] arg.tag = "Replication" -> add_pi(qe, bytes("replication"), arg.i)
    [] arg.tag = "Permission" -> add_po(qe, bytes("permission"), arg.i)
    [] arg.tag = "Sources" -> add_pv(qe, bytes("sources"), join(arg.s))
    [] arg.tag = "Destination" -> add_pv(qe, bytes("destination"), arg.s)
    [] arg.tag = "CreateParent" -> add_pb(qe, bytes("createParent"), arg.b)
    [] OTHER -> add_pb(qe, bytes("recursive"), arg.b)

\* args.iter().fold(q, |q, s| s.add_to_url(q))
RECURSIVE fold(_, _)
fold(q, args) ==
  IF args = <<>> THEN q ELSE fold(add_to_url(args[1], q), Tail(args))

\* HdfsClient::path_and_query, to the byte
path_and_query_bytes(user_name, doas, dt, file_path, o, args) ==
  LET q0 == PathEncoder_query(extend(PathEncoder_new(SVC_MOUNT_POINT), file_path))
      q1 == IF user_name.some THEN add_pv(q0, bytes("user.name"), user_name.v) ELSE q0
      q2 == IF doas.some THEN add_pv(q1, bytes("doas"), doas.v) ELSE q1
      q3 == IF dt.some THEN add_pv(q2, bytes("delegation"), dt.v) ELSE q2
      q4 == add_pv(q3, bytes("op"), bytes(op_string(o)))
      q5 == fold(q4, args)
  IN QueryEncoder_result(q5)

\* path segments: "", "a", "a/", "/b", "//b", "/" and "a b"
Segments ==
  {<<>>, <<97>>, <<97, 47>>, <<47, 98>>, <<47, 47, 98>>, <<47>>, <<97, 32, 98>>}

\* file paths of operations: "", "/x", "x y", "//x"
FilePaths == {<<>>, <<47, 120>>, <<120, 32, 121>>, <<47, 47, 120>>}

\* the arguments an operation has before its option builder adds any:
\* concat's sources "a", "b"; the destination "/y" of rename and
\* create_symlink
FixedArgs(o) ==
  CASE o = "concat" -> <<OpArg("Sources", 0, FALSE, <<(<<97>>), (<<98>>)>>)>>
    [] o \in {"rename", "create_symlink"} ->
         <<OpArg("Destination", 0, FALSE, <<47, 121>>)>>
    [] OTHER -> <<>>

\* the options of the option builder of an operation (op_builder!), with
\* the values -1, 0, 128 of an integer and 0o644, 0o7777 of a permission
Options(o) ==
  LET int(tag, v) == OpArg(tag, v, FALSE, <<>>)
      ints(tag) == {int(tag, v) : v \in {-1, 0, 128}}
      bools(tag) == {OpArg(tag, 0, v, <<>>) : v \in BOOLEAN}
      perms == {int("Permission", v) : v \in {420, 4095}}
  IN CASE o = "open" -> ints("Offset") \cup ints("Length") \cup {int("BufferSize", 128)}
       [] o = "create" -> bools("Overwrite") \cup {int("Blocksize", 128)}
                            \cup {int("Replication", -1)} \cup perms
                            \cup {int("BufferSize", 0)}
       [] o = "append" -> {int("BufferSize", 128)}
       [] o = "mkdirs" -> perms
       [] o = "create_symlink" -> bools("CreateParent")
       [] o = "delete" -> bools("Recursive")
       [] OTHER -> {}

\* identity parameters: dr.who, a/b, t=1
Identities ==
  [user_name : {None, Some(<<100, 114, 46, 119, 104, 111>>)},
   doas : {None, Some(<<97, 47, 98>>)},
   dt : {None, Some(<<116, 61, 49>>)},
   file_path : FilePaths,
   op : Ops]

\* either PathEncoder::empty(), or a client that is about to make an
\* operation with the arguments the operation itself supplies
InitPath ==
  /\ ClientIdle
  /\ NatIdle
  /\ RcIdle
  /\ FileIdle
  /\ EncIdle
  /\ ConfIdle
  /\ pe_bytes = PathEncoder_empty
  /\ pe_left = <<>>
  /\ pe_seg = <<>>
  /\ pe_n = 0
  /\ pq_out = <<>>
  /\ \/ /\ pe_pc = "path"
        /\ pq_in = NoPqIn
        /\ pq_args = <<>>
     \/ /\ pe_pc = "opts"
        /\ pq_in \in Identities
        /\ pq_args = FixedArgs(pq_in.op)

PathOthers == <<client, natv, rcv, filev, uev, confv>>

\* PathEncoder::new (the first call) and PathEncoder::extend
PathEncoder_extend ==
  /\ pe_pc = "path"
  /\ pe_n < MaxExtends
  /\ \E path_seg \in Segments :
       /\ pe_left' = pe_bytes
       /\ pe_seg' = path_seg
       /\ pe_bytes' = extend(pe_bytes, path_seg)
  /\ pe_n' = pe_n + 1
  /\ UNCHANGED <<pq_in, pq_args, pq_out, pe_pc, PathOthers>>

\* opt!: a setter of the option builder pushes its OpArg
opt ==
  /\ pe_pc = "opts"
  /\ Len(pq_args) < Len(FixedArgs(pq_in.op)) + MaxArgs
  /\ \E arg \in Options(pq_in.op) : pq_args' = Append(pq_args, arg)
  /\ UNCHANGED <<pe_bytes, pe_left, pe_seg, pe_n, pq_in, pq_out, pe_pc, PathOthers>>

\* the operation builds its path-and-query
HdfsClient_path_and_query ==
  /\ pe_pc = "opts"
  /\ pq_out' = path_and_query_bytes(pq_in.user_name, pq_in.doas, pq_in.dt,
                                    pq_in.file_path, pq_in.op, pq_args)
  /\ pe_pc' = "done"
  /\ UNCHANGED <<pe_bytes, pe_left, pe_seg, pe_n, pq_in, pq_args, PathOthers>>

NextPath ==
  \/ PathEncoder_extend
  \/ opt
  \/ HdfsClient_path_and_query

SpecPath == InitPath /\ [][NextPath]_vars

\* ------------------------------------------------------------------------
\* op.rs: the permission option of CreateOptions and MkdirsOptions
\* ------------------------------------------------------------------------

\* a client about to make a create or a mkdirs, its option builder new()
InitPerm ==
  /\ ClientIdle
  /\ NatIdle
  /\ RcIdle
  /\ FileIdle
  /\ EncIdle
  /\ ConfIdle
  /\ pe_bytes = PathEncoder_empty
  /\ pe_left = <<>>
  /\ pe_seg = <<>>
  /\ pe_n = 0
  /\ pq_out = <<>>
  /\ pe_pc = "opts"
  /\ pq_in \in {i \in Identities : /\ i.op \in {"create", "mkdirs"}
                                   /\ i.file_path = <<47, 120>>
                                   /\ ~i.doas.some
                                   /\ ~i.dt.some}
  /\ pq_args = <<>>

\* opts!(permission): CreateOptions::permission / MkdirsOptions::permission
Options_permission ==
  /\ pe_pc = "opts"
  /\ pq_args = <<>>
  /\ \E v \in 0..(2 ^ PermBits - 1) :
       pq_args' = Append(pq_args, OpArg("Permission", v, FALSE, <<>>))
  /\ UNCHANGED <<pe_bytes, pe_left, pe_seg, pe_n, pq_in, pq_out, pe_pc, PathOthers>>

NextPerm ==
  \/ Options_permission
  \/ HdfsClient_path_and_query

SpecPerm == InitPerm /\ [][NextPerm]_vars

\* ------------------------------------------------------------------------
\* config.rs: read_config_opt
\* ------------------------------------------------------------------------

\* what a configuration file may be
FileStates == {"unreadable", "unparsable", "valid"}

\* Some(config) with the location it was read from
Found(loc) == [some |-> TRUE, from |-> loc]

\* toml::from_slice(&read(p)?)?: the Result of reading and parsing a file
from_slice_read(file, loc) ==
  CASE file = "valid" -> Ok(Found(loc))
    [] file = "unparsable" -> Err(anon("SerdeToml"))
    [] OTHER -> Err(anon("Io"))

\* read_env_config
read_env_config_result(env) ==
  IF env = "unset" THEN Ok(NoConfig) ELSE from_slice_read(env, "env")

\* read_local_config
read_local_config_result(local) ==
  IF local # "absent" THEN from_slice_read(local, "local") ELSE Ok(NoConfig)

\* read_user_config
read_user_config_result(user) ==
  IF user = "nohome" THEN Ok(NoConfig)
  ELSE IF user # "absent" THEN from_slice_read(user, "user") ELSE Ok(NoConfig)

\* Option::or
Option_or(a, b) == IF a.some THEN a ELSE b

\* Result::expect, then what the caller does with the value
expect(r, loc, then) ==
  IF r.ok
  THEN /\ cf_out' = Option_or(cf_out, r.val)
       /\ cf_pc' = then
  ELSE /\ cf_out' = [some |-> FALSE, from |-> "panic"]
       /\ cf_pc' = "panicked"

\* the environment of a process that asks for its configuration
InitConf ==
  /\ ClientIdle
  /\ NatIdle
  /\ RcIdle
  /\ FileIdle
  /\ EncIdle
  /\ PathIdle
  /\ cf_env \in {"unset", "missing"} \cup FileStates
  /\ cf_local \in {"absent"} \cup FileStates
  /\ cf_user \in {"nohome", "absent"} \cup FileStates
  /\ cf_pc = "env"
  /\ cf_read = {}
  /\ cf_out = NoConfig

ConfOthers == <<client, natv, rcv, filev, uev, pev>>

\* read_config_opt: read_env_config().expect(..)
read_env_config ==
  /\ cf_pc = "env"
  /\ cf_read' = IF cf_env # "unset" THEN cf_read \cup {"env"} ELSE cf_read
  /\ expect(read_env_config_result(cf_env), "env", "local")
  /\ UNCHANGED <<cf_env, cf_local, cf_user, ConfOthers>>

\* read_config_opt: .or(read_local_config().expect(..)), the argument
\* evaluated before or is called
read_local_config ==
  /\ cf_pc = "local"
  /\ cf_read' = IF cf_local # "absent" THEN cf_read \cup {"local"} ELSE cf_read
  /\ expect(read_local_config_result(cf_local), "local", "user")
  /\ UNCHANGED <<cf_env, cf_local, cf_user, ConfOthers>>

\* read_config_opt: .or(read_user_config().expect(..))
read_user_config ==
  /\ cf_pc = "user"
  /\ cf_read' = IF cf_user \notin {"nohome", "absent"}
                THEN cf_read \cup {"user"} ELSE cf_read
  /\ expect(read_user_config_result(cf_user), "user", "done")
  /\ UNCHANGED <<cf_env, cf_local, cf_user, ConfOthers>>

NextConf ==
  \/ read_env_config
  \/ read_local_config
  \/ read_user_config

SpecConf == InitConf /\ [][NextConf]_vars

\* ------------------------------------------------------------------------
\* sync_client.rs: WriteHdfsFile, and create / append of SyncHdfsClient
\* ------------------------------------------------------------------------

\* how many calls that issue an operation a writing session makes
MaxOps == 3

\* error.rs: From<Error> for std::io::Error, by the ErrorKind
into_io(err) == IF err.cause = "Timeout" THEN "TimedOut" ELSE "Other"

\* CreateOptions and AppendOptions of a session
CreateOpts == {<<OpArg("Overwrite", 0, TRUE, <<>>)>>}

AppendOpts == {<<>>, <<OpArg("BufferSize", 128, FALSE, <<>>)>>}

\* WriteHdfsFile::do_write that issues a CREATE
do_write_create(file, buf) ==
  [o |-> "create", path |-> file.path, data |-> buf, args |-> file.opts]

\* WriteHdfsFile::do_write: cx.append(&path, buf.to_owned(), opts.clone())
do_write(file, buf) ==
  [o |-> "append", path |-> file.path, data |-> buf, args |-> file.opts]

\* Write::write: do_write(buf).map(|()| buf.len())
write(r, buf) == IF r.ok THEN IoOk(Len(buf)) ELSE IoErr(into_io(r.err))

\* WriteHdfsFile::create after cx.create: the handle, if there is one
WriteHdfsFile_new(r, path, opts) ==
  IF r.ok THEN [made |-> "create", path |-> path, opts |-> opts] ELSE NoFile

\* the answer WebHDFS prescribes for request req: the standby NameNode
\* answers StandbyException, the active one redirects to a DataNode, the
\* DataNode answers 200 with no content
HonestAnswer(req) ==
  IF req.phase = 1
  THEN IF ha /\ req.authority = NodeOf(next(active)) THEN StandbyResponse
       ELSE [status |-> 307, ct |-> "absent", body |-> "empty",
             location |-> [form |-> "uri", scheme |-> "http",
                           authority |-> "dn.internal:1006", pq |-> req.pq]]
  ELSE [status |-> 200, ct |-> "absent", body |-> "empty",
        location |-> NoLocation]

\* the answers to request req: the prescribed one, no answer, a NameNode
\* that answers 200 itself, a DataNode that reports a remote exception
WriteAnswers(req) ==
  {HonestAnswer(req), TransportFailure}
    \cup (IF req.phase = 1
          THEN {[status |-> 200, ct |-> "absent", body |-> "empty",
                 location |-> NoLocation]}
          ELSE {[status |-> 403, ct |-> "application/json",
                 body |-> "FileNotFoundException", location |-> NoLocation]})

\* the file on the server after the DataNode has accepted request req
store(stored, req) ==
  IF req.pq.op = "CREATE" THEN req.body ELSE stored \o req.body

\* the bodies of the requests a DataNode answered with a 2xx
Delivered ==
  LET got == SelectSeq(log, LAMBDA e : /\ e.phase = 2
                                       /\ e.attempt <= Len(att)
                                       /\ att[e.attempt].phase1 = "redirect"
                                       /\ is_success(att[e.attempt].status))
  IN [i \in 1..Len(got) |-> got[i].body]

\* a client whose session has not begun
InitWrite ==
  /\ alt_entrypoint \in {NoEntrypoint, AltEntrypoint}
  /\ natmap = NatMapCfg
  /\ ha \in BOOLEAN
  /\ active \in (IF ha THEN FOState ELSE {PRIMARY})
  /\ Fresh
  /\ WriteIdle
  /\ ConcIdle
  /\ NatIdle
  /\ RcIdle
  /\ FileIdle
  /\ BesideIdle

\* SyncHdfsClient::exec of the operation o on path with body data
Issue(o, path, data) ==
  /\ Call(o)
  /\ caller' = "sync"
  /\ pq' = path_and_query(path, o)
  /\ payload' = data

\* SyncHdfsClient::create(path, data, opts)
SyncHdfsClient_create ==
  /\ pc = "idle"
  /\ wf = NoFile
  /\ w_hist.n < MaxOps
  /\ ~w_hist.created
  /\ \E data \in Payloads \ {data_empty}, c_opts \in CreateOpts :
       /\ Issue("create", "/d", data)
       /\ w_call' = [NoWrite EXCEPT !.op = "client_create", !.path = "/d",
                                    !.bytes = data, !.args = c_opts]
  /\ UNCHANGED <<wf, w_srv, w_hist, cv>>

\* WriteHdfsFile::create(cx, path, c_opts, a_opts) up to the await
WriteHdfsFile_create ==
  /\ pc = "idle"
  /\ wf = NoFile
  /\ w_hist.n < MaxOps
  /\ ~w_hist.created
  /\ \E path \in Paths, c_opts \in CreateOpts, a_opts \in AppendOpts :
       /\ Issue("create", path, data_empty)
       /\ w_call' = [NoWrite EXCEPT !.op = "create", !.path = path,
                                    !.args = c_opts, !.a_opts = a_opts]
  /\ UNCHANGED <<wf, w_srv, w_hist, cv>>

\* WriteHdfsFile::append(cx, path, opts)
WriteHdfsFile_append ==
  /\ pc = "idle"
  /\ wf = NoFile
  /\ \E a_opts \in AppendOpts :
       wf' = [made |-> "append", path |-> "/d", opts |-> a_opts]
  /\ w_call' = [NoWrite EXCEPT !.op = "append_new", !.path = "/d"]
  /\ UNCHANGED <<cfg, cluster, fostate, call, history, aside, w_srv, w_hist, cv>>

\* Write::write(buf) up to the await
Write_write ==
  /\ pc = "idle"
  /\ wf.made \in {"create", "append"}
  /\ w_hist.n < MaxOps
  /\ \E buf \in Payloads :
       LET a == do_write(wf, buf) IN
       /\ Issue(a.o, a.path, a.data)
       /\ w_call' = [NoWrite EXCEPT !.op = "write", !.path = a.path,
                                    !.bytes = buf, !.args = a.args]
  /\ UNCHANGED <<wf, w_srv, w_hist, cv>>

\* Write::flush: Ok(())
Write_flush ==
  /\ pc = "idle"
  /\ wf.made \in {"create", "append"}
  /\ w_call' = [NoWrite EXCEPT !.op = "flush", !.path = wf.path,
                               !.ret = IoOk(0), !.ok = TRUE]
  /\ UNCHANGED <<cfg, cluster, fostate, call, history, aside, wf, w_srv, w_hist,
                 cv>>

\* the NameNode answers the first request of an attempt
namenode_answers ==
  /\ pc = "phase1"
  /\ \E res \in WriteAnswers(log[Len(log)]) :
       /\ phase1_answer(res)
       /\ w_srv' = [w_srv EXCEPT
                      !.honest = @ /\ res = HonestAnswer(log[Len(log)])]
  /\ w_hist' = [w_hist EXCEPT !.retried = @ \/ attempt' = 2]
  /\ UNCHANGED <<wf, w_call, cv>>

\* the DataNode answers the second request of an attempt
datanode_answers ==
  /\ pc = "phase2"
  /\ \E res \in WriteAnswers(log[Len(log)]) :
       /\ phase2_answer(res)
       /\ w_srv' = [stored |-> IF is_success(res.status)
                               THEN store(w_srv.stored, log[Len(log)])
                               ELSE w_srv.stored,
                    appended |-> IF is_success(res.status)
                                      /\ log[Len(log)].pq.op = "APPEND"
                                 THEN w_srv.appended + Len(log[Len(log)].body)
                                 ELSE w_srv.appended,
                    honest |-> w_srv.honest
                                 /\ res = HonestAnswer(log[Len(log)])]
  /\ w_hist' = [w_hist EXCEPT !.retried = @ \/ attempt' = 2]
  /\ UNCHANGED <<wf, w_call, cv>>

\* the call returns to the session: exec's foresult, then what create and
\* write make of the result
SyncHdfsClient_returns ==
  /\ pc = "done"
  /\ split
  /\ w_call' = [w_call EXCEPT
                  !.ok = result.r.ok,
                  !.delivered = Delivered,
                  !.ret = IF w_call.op = "write"
                          THEN write(result.r, w_call.bytes)
                          ELSE IF result.r.ok THEN IoOk(0)
                               ELSE IoErr(into_io(result.r.err))]
  /\ wf' = IF w_call.op = "create"
           THEN WriteHdfsFile_new(result.r, w_call.path, w_call.a_opts)
           ELSE wf
  /\ w_hist' = [n |-> w_hist.n + 1,
                allok |-> w_hist.allok /\ result.r.ok,
                created |-> w_hist.created
                              \/ (w_call.op # "write" /\ result.r.ok),
                expect |-> IF ~result.r.ok THEN w_hist.expect
                           ELSE IF w_call.op = "write"
                                THEN w_hist.expect \o w_call.bytes
                                ELSE w_call.bytes,
                count |-> IF w_call.op = "write" /\ result.r.ok
                          THEN w_hist.count + write(result.r, w_call.bytes).val
                          ELSE w_hist.count,
                retried |-> w_hist.retried,
                left |-> result.fostate,
                by |-> w_call.op]
  /\ UNCHANGED <<w_srv, cv>>

NextWrite ==
  \/ SyncHdfsClient_create
  \/ WriteHdfsFile_create
  \/ WriteHdfsFile_append
  \/ Write_write
  \/ Write_flush
  \/ namenode_answers
  \/ datanode_answers
  \/ timeout
  \/ SyncHdfsClient_returns

SpecWrite == InitWrite /\ [][NextWrite]_vars

\* ------------------------------------------------------------------------
\* sync_client.rs: the client a ReadHdfsFile or a WriteHdfsFile holds
\* ------------------------------------------------------------------------

\* the handle that was not made: the client moved into open or create is
\* dropped with the error
Dropped == [made |-> "dropped", path |-> "-", opts |-> <<>>]

\* ReadHdfsFile::open after cx.stat: the handle, if there is one
ReadHdfsFile_new(r, path) ==
  IF r.ok THEN [made |-> "open", path |-> path, opts |-> <<>>] ELSE Dropped

\* into_parts handing out a client that has made no call
into_parts_new(cx) == PRIMARY

\* ReadHdfsFile::into_parts, WriteHdfsFile::into_parts: self.cx, by the
\* failover state it holds
into_parts(cx) == cx

\* ReadHdfsFile::open(cx, path) up to the await: cx.stat(&path)
ReadHdfsFile_open ==
  /\ pc = "idle"
  /\ wf = NoFile
  /\ w_hist.n < MaxOps
  /\ \E path \in Paths :
       /\ Issue("stat", path, data_empty)
       /\ w_call' = [NoWrite EXCEPT !.op = "open", !.path = path]
  /\ UNCHANGED <<wf, w_srv, w_hist, cv>>

\* Read::read(buf) up to the await: self.cx.open(&self.path, ..)
Read_read ==
  /\ pc = "idle"
  /\ wf.made = "open"
  /\ w_hist.n < MaxOps
  /\ Issue("open", wf.path, data_empty)
  /\ w_call' = [NoWrite EXCEPT !.op = "read", !.path = wf.path]
  /\ UNCHANGED <<wf, w_srv, w_hist, cv>>

\* ReadHdfsFile::into_parts
ReadHdfsFile_into_parts ==
  /\ pc = "idle"
  /\ wf.made = "open"
  /\ fostate' = into_parts(fostate)
  /\ wf' = NoFile
  /\ w_call' = [NoWrite EXCEPT !.op = "into_parts", !.path = wf.path]
  /\ UNCHANGED <<cfg, cluster, call, history, aside, w_srv, w_hist, cv>>

\* WriteHdfsFile::into_parts
WriteHdfsFile_into_parts ==
  /\ pc = "idle"
  /\ wf.made \in {"create", "append"}
  /\ fostate' = into_parts(fostate)
  /\ wf' = NoFile
  /\ w_call' = [NoWrite EXCEPT !.op = "into_parts", !.path = wf.path]
  /\ UNCHANGED <<cfg, cluster, call, history, aside, w_srv, w_hist, cv>>

\* SyncHdfsClient::mkdirs(path, opts) of the client that is not in a handle
SyncHdfsClient_mkdirs ==
  /\ pc = "idle"
  /\ wf = NoFile
  /\ w_hist.n < MaxOps
  /\ Issue("mkdirs", "/d", data_empty)
  /\ w_call' = [NoWrite EXCEPT !.op = "mkdirs", !.path = "/d"]
  /\ UNCHANGED <<wf, w_srv, w_hist, cv>>

\* the call returns: foresult of the client (in the handle or not), then
\* what open, create, read and write make of the result
SyncHdfsClient_foresult ==
  /\ pc = "done"
  /\ split
  /\ w_call' = [w_call EXCEPT
                  !.ok = result.r.ok,
                  !.ret = IF w_call.op = "write"
                          THEN write(result.r, w_call.bytes)
                          ELSE IF result.r.ok THEN IoOk(0)
                               ELSE IoErr(into_io(result.r.err))]
  /\ wf' = IF w_call.op = "open"
           THEN ReadHdfsFile_new(result.r, w_call.path)
           ELSE IF w_call.op = "create"
                THEN IF result.r.ok
                     THEN WriteHdfsFile_new(result.r, w_call.path,
                                            w_call.a_opts)
                     ELSE Dropped
                ELSE wf
  /\ w_hist' = [w_hist EXCEPT !.n = @ + 1,
                              !.allok = @ /\ result.r.ok,
                              !.left = result.fostate,
                              !.by = w_call.op]
  /\ UNCHANGED <<w_srv, cv>>

NextHandle ==
  \/ ReadHdfsFile_open
  \/ Read_read
  \/ ReadHdfsFile_into_parts
  \/ WriteHdfsFile_create
  \/ WriteHdfsFile_append
  \/ Write_write
  \/ WriteHdfsFile_into_parts
  \/ SyncHdfsClient_mkdirs
  \/ phase1_response
  \/ phase2_response
  \/ timeout
  \/ SyncHdfsClient_foresult

SpecHandle == InitWrite /\ [][NextHandle]_vars

\* ------------------------------------------------------------------------
\* async_client.rs: two operations of one HdfsClient in flight
\* ------------------------------------------------------------------------

\* the longest payload of a concurrent operation
MaxConcLen == 1

\* with_failover: the locals of the future being polled
locals ==
  [pc |-> pc, caller |-> caller, op |-> op, pq |-> pq, payload |-> payload,
   start |-> start, snap |-> snap, attempt |-> attempt, hold |-> hold,
   att |-> att, log |-> log, result |-> result]

\* a future polled with the failover snapshot of the one polled before it
resume_shared(p) ==
  /\ pc' = p.pc
  /\ caller' = p.caller
  /\ op' = p.op
  /\ pq' = p.pq
  /\ payload' = p.payload
  /\ start' = p.start
  /\ snap' = snap
  /\ attempt' = p.attempt
  /\ hold' = p.hold
  /\ att' = p.att
  /\ log' = p.log
  /\ result' = p.result

\* with_failover: a future is polled with the locals it was left with
resume(p) ==
  /\ pc' = p.pc
  /\ caller' = p.caller
  /\ op' = p.op
  /\ pq' = p.pq
  /\ payload' = p.payload
  /\ start' = p.start
  /\ snap' = p.snap
  /\ attempt' = p.attempt
  /\ hold' = p.hold
  /\ att' = p.att
  /\ log' = p.log
  /\ result' = p.result

\* the operations made concurrently: one without and one with a payload
ConcOps == {"stat", "create"}

\* the answers to request req of a concurrent operation
ConcAnswers(req) ==
  WriteAnswers(req)
    \cup {[status |-> 200, ct |-> "application/json", body |-> "json",
           location |-> NoLocation]}

\* a client no operation of which is in flight
InitConc ==
  /\ alt_entrypoint \in {NoEntrypoint, AltEntrypoint}
  /\ natmap = NatMapCfg
  /\ ha \in BOOLEAN
  /\ active \in (IF ha THEN FOState ELSE {PRIMARY})
  /\ Fresh
  /\ WriteIdle
  /\ ConcIdle
  /\ NatIdle
  /\ RcIdle
  /\ FileIdle
  /\ BesideIdle

\* HdfsClient::stat / create(&self, fostate, ..): a future is made and
\* polled up to its first await
HdfsClient_call ==
  /\ pc = "idle"
  /\ \E o \in ConcOps :
       /\ Call(o)
       /\ caller' = "async"
       /\ pq' = path_and_query("/d", o)
       /\ Len(payload') <= MaxConcLen
  /\ UNCHANGED <<wv, cv>>

\* the executor leaves the future at its await and polls the other one
poll ==
  /\ parked' = locals
  /\ resume(parked)
  /\ turn' = 3 - turn
  /\ UNCHANGED <<cfg, cluster, fostate, history, aside, wv, heard>>

\* the first request of the polled future is answered
first_answer ==
  /\ pc = "phase1"
  /\ \E res \in ConcAnswers(log[Len(log)]) :
       /\ phase1_answer(res)
       /\ heard' = [heard EXCEPT ![turn] = Append(@, res)]
  /\ UNCHANGED <<wv, parked, turn>>

\* the second request of the polled future is answered
second_answer ==
  /\ pc = "phase2"
  /\ \E res \in ConcAnswers(log[Len(log)]) :
       /\ phase2_answer(res)
       /\ heard' = [heard EXCEPT ![turn] = Append(@, res)]
  /\ UNCHANGED <<wv, parked, turn>>

NextConc ==
  \/ HdfsClient_call
  \/ poll
  \/ first_answer
  \/ second_answer

SpecConc == InitConc /\ [][NextConc]_vars

\* ------------------------------------------------------------------------
\* Properties
\* ------------------------------------------------------------------------

\* alt_entrypoint.is_some()
Alt == alt_entrypoint # NoEntrypoint

\* authority of the entrypoint a failover state selects on this client
EpAuthority(s) == uri(alt_entrypoint, s, NoPq).uri.authority

\* the error is the remote StandbyException of a standby NameNode
StandbyException(e) ==
  e = RemoteExceptionError("StandbyException")

\* attempt i has finished with a standby exception (for open: delivered
\* through the stream)
Standby(i) ==
  /\ Len(att) >= i
  /\ att[i].phase1 # "uri"
  /\ StandbyException(ObservedError(att[i].r))

\* the requests attempt i has sent in phase ph
Requests(i, ph) == {k \in 1..Len(log) : log[k].attempt = i /\ log[k].phase = ph}

\* the operation ran to completion (it was not timed out)
Returned == pc = "done" /\ ~result.timeout

\* C1: with alt_entrypoint configured, a first attempt that fails with
\* StandbyException is followed by exactly one retry: the state is flipped,
\* the same method and path-and-query go to the other entrypoint, the
\* retry's outcome is what the operation returns, and there is no third
\* attempt
C1_FailoverRetry ==
  (Alt /\ Standby(1)) =>
    /\ attempt = 2
    /\ snap = next(start)
    /\ Cardinality(Requests(2, 1)) = 1
    /\ \A k \in Requests(2, 1) :
         /\ log[k].authority = EpAuthority(next(start))
         /\ log[k].authority # log[1].authority
         /\ log[k].method = log[1].method
         /\ log[k].pq = log[1].pq
    /\ \A k \in 1..Len(log) : log[k].attempt <= 2
    /\ Returned =>
         /\ Len(att) = 2
         /\ result.r = cvt(op, att[2].r)
         /\ result.fostate = next(start)

\* C2: a first attempt that fails with anything but a StandbyException, or
\* on a client without alt_entrypoint, is the only attempt: the operation
\* returns that error and the state it was started with
C2_NoRetry ==
  (/\ Len(att) >= 1
   /\ ObservedError(att[1].r) # NoError
   /\ ~Alt \/ ~StandbyException(ObservedError(att[1].r))) =>
    /\ attempt = 1
    /\ Len(att) = 1
    /\ \A k \in 1..Len(log) : log[k].attempt = 1
    /\ pc = "done"
    /\ ObservedError(result.r) = ObservedError(att[1].r)
    /\ result.fostate = start

\* a first attempt has failed with another remote exception although
\* alt_entrypoint is configured, on an operation started in ALT
C2_Witness ==
  /\ Alt
  /\ pc = "done"
  /\ start = ALT
  /\ Len(att) = 1
  /\ att[1].r.err = RemoteExceptionError("FileNotFoundException")

\* C3: on an HA pair with fixed roles, the sync operation that follows a
\* successful one starts in the state of the NameNode that served it,
\* sends its first request there and makes no failover retry
C3_Convergence ==
  (ha /\ Alt /\ caller = "sync" /\ pc # "idle" /\ prev # NoSummary) =>
    /\ EpAuthority(start) = prev
    /\ log # <<>> => log[1].authority = prev
    /\ attempt = 1
    /\ Cardinality({k \in 1..Len(log) : log[k].phase = 1}) <= 1
    /\ Returned /\ pq.path # LongPath =>
         Cardinality({k \in 1..Len(log) : log[k].phase = 1}) = 1

\* after the roles were swapped, an operation has followed a successful one
\* and has itself been served by the alternate NameNode in one attempt
C3_Witness ==
  /\ ha
  /\ Alt
  /\ caller = "sync"
  /\ prev = NodeOf(ALT)
  /\ pc = "done"
  /\ Succeeded(result.r)
  /\ log[1].authority = NodeOf(ALT)

\* C4: the memoized state names the entrypoint that served the most recent
\* successful sync operation (PRIMARY before any); failed operations do not
\* change it
C4_LastSucceeded == EpAuthority(fostate) = served

\* C4 as amended: when a sync operation returns, the memoized state stays
\* as it was if the operation was timed out or sent no request, and
\* otherwise names the entrypoint of the operation's last NameNode request
\* (the one that served it, if it succeeded); it changes exactly when the
\* operation made a failover retry
C4_LastAddressed ==
  [][(pc = "done" /\ pc' = "idle" /\ caller = "sync") =>
       /\ (result.timeout \/ log = <<>>) => fostate' = fostate
       /\ (~result.timeout /\ log # <<>>) =>
            /\ EpAuthority(fostate') = LastNN(log)
            /\ (fostate' # fostate) <=> (attempt = 2)
       /\ Succeeded(result.r) => EpAuthority(fostate') = LastNN(log)]_vars

\* a sync operation whose failover retry failed has returned, and the
\* client memoized the flipped state
C4_Witness ==
  /\ pc = "idle"
  /\ EpAuthority(fostate) # served

\* C5: on a client without alt_entrypoint the sync client holds PRIMARY and
\* every operation returns PRIMARY, whatever state it was started with
C5_AlwaysPrimary ==
  ~Alt => (fostate = PRIMARY /\ (pc = "done" => result.fostate = PRIMARY))

\* C5 as amended: on a client without alt_entrypoint the sync client holds
\* PRIMARY, every operation keeps and returns the state it was started
\* with, makes one attempt, and sends every NameNode request to entrypoint
C5_NeverFlips ==
  ~Alt =>
    /\ fostate = PRIMARY
    /\ snap = start
    /\ attempt <= 1
    /\ pc = "done" => result.fostate = start
    /\ \A k \in 1..Len(log) :
         log[k].phase = 1 => log[k].authority = Entrypoint.authority

\* an operation started in ALT on a client without alt_entrypoint has been
\* answered with StandbyException
C5_Witness ==
  /\ ~Alt
  /\ pc = "done"
  /\ start = ALT
  /\ Standby(1)

\* C6: with alt_entrypoint configured, a StandbyException on the first
\* attempt is consumed: a retry is made, and when it succeeds the caller
\* gets its result and sees no StandbyException
C6_StandbyConsumed ==
  (Alt /\ Returned /\ Standby(1)) =>
    /\ Len(att) = 2
    /\ Succeeded(att[2].r) =>
         /\ result.r = cvt(op, att[2].r)
         /\ ~StandbyException(ObservedError(result.r))

C9_ExpectedRedirect ==
  (op \in TwoPhaseOps /\ Returned /\ Len(att) >= 1
     /\ att[Len(att)].phase1 = "other") =>
    ObservedError(result.r) =
      app_error("Expected redirect, found non-redirect response")

\* C10: a metadata operation sends one request per attempt, to the
\* NameNode, and follows no redirect
C10_OneStep ==
  op \in MetadataOps =>
    /\ \A k \in 1..Len(log) :
         /\ log[k].phase = 1
         /\ log[k].authority \in {Entrypoint.authority, AltEntrypoint.authority}
    /\ \A i \in 1..2 : Cardinality(Requests(i, 1) \cup Requests(i, 2)) <= 1

\* the address a Location stands for behind the client's NAT map: the
\* mapped authority if the map has an entry for the Location's, else its own
Reachable(loc) ==
  [scheme |-> loc.scheme,
   authority |-> IF loc.authority \in DOMAIN natmap
                 THEN natmap[loc.authority] ELSE loc.authority,
   pq |-> loc.pq]

\* errors of an attempt whose redirect carried no usable Location
NoUsableLocation ==
  {app_error("Redirect without Location header"), anon("HyperHeaderToStr"),
   into_with("HttpInvalidUri", "Cannot parse location URI returned by redirect")}

\* C11: when the first request of an attempt of open, create or append is
\* answered 3xx with a Location that is a URI, exactly one second request
\* is sent, to the Location with its authority replaced by the NAT map's
\* entry if there is one and to the Location itself otherwise
C11_RedirectTarget ==
  op \in TwoPhaseOps =>
    /\ \A i \in 1..2 :
         /\ Cardinality(Requests(i, 2)) <= 1
         /\ \A k \in Requests(i, 2) :
              /\ log[k].via.form = "uri"
              /\ [scheme |-> log[k].scheme, authority |-> log[k].authority,
                  pq |-> log[k].pq] = Reachable(log[k].via)
    /\ pc = "phase2" => Requests(attempt, 2) # {}
    /\ \A i \in 1..Len(att) :
         (att[i].phase1 = "redirect" /\ Requests(i, 2) = {}) =>
           ObservedError(att[i].r) \in NoUsableLocation

\* the second request of an open, create or append has gone to the NAT
\* map's replacement of the Location's authority
C11_Witness ==
  /\ op \in TwoPhaseOps
  /\ pc = "phase2"
  /\ \E k \in Requests(attempt, 2) :
       /\ log[k].via.authority \in DOMAIN natmap
       /\ log[k].authority = natmap[log[k].via.authority]
       /\ log[k].authority # log[k].via.authority

\* C15: no attempt and no operation ends with an error whose cause is
\* HttpRedirect, whatever the servers answer
C15_RedirectInternal ==
  /\ \A i \in 1..Len(att) : ObservedError(att[i].r).cause # "HttpRedirect"
  /\ pc = "done" => ObservedError(result.r).cause # "HttpRedirect"

\* an operation has returned after its second request was answered with a
\* 3xx
C15_Witness ==
  /\ pc = "done"
  /\ \E i \in 1..Len(att) :
       /\ att[i].phase1 = "redirect"
       /\ Requests(i, 2) # {}
       /\ att[i].status = 307

\* C12: translate returns its input when the map is empty, the URI has no
\* authority or the map has no entry for the whole authority; otherwise it
\* returns the URI with the mapped authority and the same scheme, path and
\* query
C12_OnlyAuthority ==
  nat_pc \in {"NatMap", "NatMapPtr"} =>
    /\ nat_out.ok
    /\ IF nat_map = NatMapNone \/ nat_uri.authority = "-"
          \/ nat_uri.authority \notin DOMAIN nat_map
       THEN nat_out.val = nat_uri
       ELSE /\ nat_out.val.authority = nat_map[nat_uri.authority]
            /\ nat_out.val.scheme = nat_uri.scheme
            /\ nat_out.val.pq = nat_uri.pq

\* an https URI has been translated by a map that has an entry for its
\* authority, and for its host alone too
C12_Witness ==
  /\ nat_pc = "NatMapPtr"
  /\ DOMAIN nat_map = NatKeys
  /\ nat_uri.scheme = "https"
  /\ nat_uri.authority = "dn.internal:1006"
  /\ nat_out.val.authority = nat_map["dn.internal:1006"]
  /\ nat_out.val.authority # nat_map["dn.internal"]

\* the content types that match an expected shape
Matching(e) ==
  CASE e = "JSON" -> {"application/json", "application/json;charset=utf-8"}
    [] e = "Binary" -> {"application/octet-stream"}
    [] e = "None" -> {"absent"}

\* the body an expected shape decodes
Decodable(e) ==
  CASE e = "JSON" -> {"json"}
    [] e = "Binary" -> Bodies \ {"broken"}
    [] e = "None" -> {"empty"}

\* the error of a Content-Type header that cannot be read
Unreadable(ct) ==
  IF ct = "nonascii" THEN anon("HyperHeaderToStr") ELSE anon("MimeFromStr")

InvalidContentType == app_error("Invald content type")

\* a 2xx response has been classified
Classified2xx == rc_pc = "out" /\ rc_res.status \in 200..299

\* a 4xx or 5xx response has been classified
Classified4xx5xx == rc_pc = "out" /\ rc_res.status \in 400..599

\* C13: a 2xx final response is accepted if and only if its content type
\* matches the expected shape; every other response yields the
\* invalid-content-type error whatever its body
C13_ContentType ==
  Classified2xx =>
    IF rc_res.ct \in Matching(RCT(rc_engine))
    THEN /\ ObservedError(rc_out) # InvalidContentType
         /\ rc_res.body \in Decodable(RCT(rc_engine)) => Succeeded(rc_out)
    ELSE ObservedError(rc_out) = InvalidContentType

\* C13 as amended: a 2xx final response is accepted if and only if its
\* content type matches the expected shape; a Content-Type header that
\* cannot be read yields the error of reading it, every other response the
\* invalid-content-type error, in both cases whatever the body
C13_ContentTypeRead ==
  Classified2xx =>
    IF rc_res.ct \in Matching(RCT(rc_engine))
    THEN /\ ObservedError(rc_out) # InvalidContentType
         /\ rc_res.body \in Decodable(RCT(rc_engine)) => Succeeded(rc_out)
    ELSE IF rc_res.ct \in {"nonascii", "malformed"}
         THEN ObservedError(rc_out) = Unreadable(rc_res.ct)
         ELSE ObservedError(rc_out) = InvalidContentType

\* op_json has been answered 201 with JSON in another charset than utf-8
C13_Witness ==
  /\ Classified2xx
  /\ rc_engine = "op_json"
  /\ rc_res.status = 201
  /\ rc_res.ct = "application/json;charset=latin1"
  /\ rc_res.body = "json"
  /\ ~Succeeded(rc_out)

\* C14: a 4xx/5xx final response never yields success; it yields the
\* server's RemoteException when the response is JSON that decodes as
\* RemoteExceptionResponse, and a generic error otherwise
C14_RemoteError ==
  Classified4xx5xx =>
    /\ ~Succeeded(rc_out)
    /\ IF rc_res.ct \in Matching("JSON") /\ rc_res.body \in RemoteExceptions
       THEN ObservedError(rc_out) = RemoteExceptionError(rc_res.body)
       ELSE ObservedError(rc_out).cause = "None"

\* C14 as amended: a 4xx/5xx final response never yields success; a
\* Content-Type header that cannot be read yields the error of reading it;
\* otherwise the response yields the server's RemoteException when it is
\* JSON that decodes as RemoteExceptionResponse, and a generic error when
\* it is not
C14_RemoteErrorRead ==
  Classified4xx5xx =>
    /\ ~Succeeded(rc_out)
    /\ IF rc_res.ct \in {"nonascii", "malformed"}
       THEN ObservedError(rc_out) = Unreadable(rc_res.ct)
       ELSE IF rc_res.ct \in Matching("JSON") /\ rc_res.body \in RemoteExceptions
            THEN ObservedError(rc_out) = RemoteExceptionError(rc_res.body)
            ELSE ObservedError(rc_out).cause = "None"

\* post_binary has been answered 500 with the JSON of a
\* FileNotFoundException
C14_Witness ==
  /\ Classified4xx5xx
  /\ rc_engine = "post_binary"
  /\ rc_res.status = 500
  /\ rc_res.ct = "application/json;charset=utf-8"
  /\ rc_res.body = "FileNotFoundException"
  /\ ObservedError(rc_out).exception = "FileNotFoundException"

\* read has returned
ReadReturned == file_pc = "ready" /\ file_call.op = "read"

\* seek has returned
SeekReturned == file_pc = "ready" /\ file_call.op = "seek"

\* where a seek is asked to go
SeekTarget ==
  CASE file_call.from.whence = "Start" -> file_call.from.o
    [] file_call.from.whence = "Current" -> file_call.pos0 + file_call.from.o
    [] file_call.from.whence = "End" -> file_len + file_call.from.o

\* C16: read(buf) issues OPEN with offset = position and length = len(buf);
\* it returns a count n <= len(buf) and the position advances by exactly n;
\* a read at position = length returns 0 and leaves the position unchanged
C16_ReadAdvances ==
  ReadReturned =>
    /\ file_rd.offset = file_call.pos0
    /\ file_rd.length = file_call.buf
    /\ file_ret.ok =>
         /\ file_ret.val <= file_call.buf
         /\ file_pos = file_call.pos0 + file_ret.val
         /\ file_call.pos0 = file_len =>
              file_ret.val = 0 /\ file_pos = file_call.pos0

\* C17: when position + len(buf) <= length and the server serves the
\* requested range, in whatever chunks, read returns exactly len(buf)
C17_FullRead ==
  ( /\ ReadReturned
    /\ file_call.pos0 + file_call.buf <= file_len
    /\ file_rd.served = file_call.buf
    /\ file_ret.kind \notin {"Other", "TimedOut"} )
  => file_ret = IoOk(file_call.buf)

\* a range of MaxBuf bytes has been read from two chunks or more
C17_Witness ==
  /\ ReadReturned
  /\ file_call.buf = MaxBuf
  /\ file_call.pos0 + file_call.buf <= file_len
  /\ file_rd.served = MaxBuf
  /\ file_rd.chunks >= 2
  /\ file_ret = IoOk(MaxBuf)

\* C18: seek(Start(x)) with 0 <= x <= length sets the position to x,
\* seek(End(0)) sets it to the length, a seek whose target lies before 0
\* fails with InvalidInput, and a successful seek returns the new position
C18_SeekSets ==
  SeekReturned =>
    /\ (file_call.from.whence = "Start" /\ file_call.from.o <= file_len) =>
         file_pos = file_call.from.o /\ file_ret.ok
    /\ file_call.from = End(0) => file_pos = file_len /\ file_ret.ok
    /\ SeekTarget < 0 => file_ret = IoErr("InvalidInput")
    /\ file_ret.ok => file_ret.val = file_pos

\* a seek from a position after 0 to a target before 0 has failed
C18_Witness ==
  /\ SeekReturned
  /\ file_call.from.whence = "Current"
  /\ file_call.pos0 > 0
  /\ SeekTarget < 0
  /\ file_ret = IoErr("InvalidInput")

\* C19: seek(Start(o)) with o > length leaves the position unchanged: the
\* position after it and the value it returns equal the position before
C19_StartPastEnd ==
  (SeekReturned /\ file_call.from.whence = "Start" /\ file_call.from.o > file_len) =>
    file_pos = file_call.pos0 /\ file_ret = IoOk(file_call.pos0)

\* C20: seek(Current(d)) whose sum position + d overflows i64 fails with
\* InvalidInput
C20_OverflowFails ==
  (SeekReturned /\ file_call.from.whence = "Current" /\ SeekTarget > I64Max) =>
    file_ret = IoErr("InvalidInput")

\* C20 as amended: seek(Current(d)) whose sum position + d overflows i64
\* returns Ok with the position, which it leaves unchanged
C20_OverflowStays ==
  (SeekReturned /\ file_call.from.whence = "Current" /\ SeekTarget > I64Max) =>
    file_pos = file_call.pos0 /\ file_ret = IoOk(file_call.pos0)

\* a seek by i64::MAX from a position after 0 has returned
C20_Witness ==
  /\ SeekReturned
  /\ file_call.from = Current(I64Max)
  /\ file_call.pos0 > 0
  /\ file_ret.ok

\* RFC 3986 unreserved: A-Z a-z 0-9 - _ . ~
Unreserved == (65..90) \cup (97..122) \cup (48..57) \cup {45, 95, 46, 126}

\* the uppercase hexadecimal digits, 0 first
HexUpper == <<48, 49, 50, 51, 52, 53, 54, 55, 56, 57, 65, 66, 67, 68, 69, 70>>

\* the percent-encoding of a byte string that keeps the bytes of keep
RECURSIVE PercentEncoded(_, _)
PercentEncoded(str, keep) ==
  IF str = <<>> THEN <<>>
  ELSE (IF str[1] \in keep THEN <<str[1]>>
        ELSE <<37, HexUpper[(str[1] \div 16) + 1], HexUpper[(str[1] % 16) + 1]>>)
       \o PercentEncoded(SubSeq(str, 2, Len(str)), keep)

\* the value of a hexadecimal digit, -1 for any other byte
HexValue(c) ==
  IF c \in 48..57 THEN c - 48
  ELSE IF c \in 65..70 THEN c - 55
  ELSE IF c \in 97..102 THEN c - 87
  ELSE -1

\* URL-decoding: %XY is the byte with hexadecimal digits X and Y, and in a
\* query string + is a space
RECURSIVE UrlDecode(_, _)
UrlDecode(str, query) ==
  IF str = <<>> THEN <<>>
  ELSE IF /\ str[1] = 37
          /\ Len(str) >= 3
          /\ HexValue(str[2]) >= 0
          /\ HexValue(str[3]) >= 0
       THEN <<16 * HexValue(str[2]) + HexValue(str[3])>>
              \o UrlDecode(SubSeq(str, 4, Len(str)), query)
       ELSE <<IF query /\ str[1] = 43 THEN 32 ELSE str[1]>>
              \o UrlDecode(SubSeq(str, 2, Len(str)), query)

\* the iterator has been run to its end
Encoded == ue_pc = "end"

\* C28: URL-decoding the path-mode encoding of a string yields the string,
\* and so does URL-decoding its query-mode encoding
C28_RoundTrip == Encoded => UrlDecode(ue_out, ~ue_omit) = ue_src

\* the string %2F has been encoded in query mode
C28_Witness ==
  /\ Encoded
  /\ ~ue_omit
  /\ ue_src = <<37, 50, 70>>
  /\ ue_out = <<37, 50, 53, 50, 70>>

\* C29: the encoder passes through exactly the unreserved bytes, and / in
\* path mode only; every other byte becomes % and its two uppercase
\* hexadecimal digits, high nibble first; so query-mode output holds none
\* of / ? & = #
C29_Encoding ==
  Encoded =>
    /\ ue_out = PercentEncoded(ue_src, IF ue_omit THEN Unreserved \cup {47}
                                        ELSE Unreserved)
    /\ ~ue_omit => \A k \in 1..Len(ue_out) : ue_out[k] \notin {47, 63, 38, 61, 35}

\* a slash and a byte above 127 have been encoded in query mode
C29_Witness ==
  /\ Encoded
  /\ ~ue_omit
  /\ ue_src = <<47, 208>>
  /\ ue_out = <<37, 50, 70, 37, 68, 48>>

\* a string without its trailing slashes
RECURSIVE TrimRight(_)
TrimRight(str) ==
  IF str # <<>> /\ str[Len(str)] = 47
  THEN TrimRight(SubSeq(str, 1, Len(str) - 1)) ELSE str

\* a string without its leading slashes
RECURSIVE TrimLeft(_)
TrimLeft(str) == IF str # <<>> /\ Head(str) = 47 THEN TrimLeft(Tail(str)) ELSE str

\* extend was called on a non-empty path with a non-empty segment
Joined == pe_pc = "path" /\ pe_n > 0 /\ pe_left # <<>> /\ pe_seg # <<>>

\* C30: PathEncoder.extend normalizes the junction: for a non-empty
\* accumulated path and a non-empty next segment the joined path has exactly
\* one '/' between the left part and the right part, however the left part
\* ends and the right part begins
C30_OneSlash ==
  Joined =>
    pe_bytes = TrimRight(pe_left) \o <<47>>
                 \o PercentEncoded(TrimLeft(pe_seg), Unreserved \cup {47})

\* the name and the value of the parameter of an operation argument
Parameter(arg) ==
  CASE arg.tag = "Offset" -> <<bytes("offset"), format(arg.i)>>
    [] arg.tag = "Length" -> <<bytes("length"), format(arg.i)>>
    [] arg.tag = "BufferSize" -> <<bytes("buffersize"), format(arg.i)>>
    [] arg.tag = "Overwrite" ->
         <<bytes("overwrite"), IF arg.b THEN bytes("true") ELSE bytes("false")>>
    [] arg.tag = "Blocksize" -> <<bytes("blocksize"), format(arg.i)>>
    [] arg.tag = "Replication" -> <<bytes("replication"), format(arg.i)>>
    [] arg.tag = "Permission" ->
         <<bytes("permission"),
           <<48 + ((arg.i \div 64) % 8), 48 + ((arg.i \div 8) % 8), 48 + (arg.i % 8)>> >>
    [] arg.tag = "Sources" ->
         <<bytes("sources"), PercentEncoded(join(arg.s), Unreserved)>>
    [] arg.tag = "Destination" ->
         <<bytes("destination"), PercentEncoded(arg.s, Unreserved)>>
    [] arg.tag = "CreateParent" ->
         <<bytes("createParent"), IF arg.b THEN bytes("true") ELSE bytes("false")>>
    [] OTHER ->
         <<bytes("recursive"), IF arg.b THEN bytes("true") ELSE bytes("false")>>

\* the parameters of the request in the order of the claim: the configured
\* ones of user.name, doas, delegation, then op, then the arguments
Parameters ==
  (IF pq_in.user_name.some
   THEN <<(<<bytes("user.name"), PercentEncoded(pq_in.user_name.v, Unreserved)>>)>>
   ELSE <<>>)
  \o (IF pq_in.doas.some
      THEN <<(<<bytes("doas"), PercentEncoded(pq_in.doas.v, Unreserved)>>)>>
      ELSE <<>>)
  \o (IF pq_in.dt.some
      THEN <<(<<bytes("delegation"), PercentEncoded(pq_in.dt.v, Unreserved)>>)>>
      ELSE <<>>)
  \o <<(<<bytes("op"), bytes(op_string(pq_in.op))>>)>>
  \o [i \in 1..Len(pq_args) |-> Parameter(pq_args[i])]

\* name=value of each parameter, the first after '?', the others after '&'
RECURSIVE QueryString(_, _)
QueryString(ps, first) ==
  IF ps = <<>> THEN <<>>
  ELSE <<IF first THEN 63 ELSE 38>> \o ps[1][1] \o <<61>> \o ps[1][2]
         \o QueryString(Tail(ps), FALSE)

\* C27: the path-and-query of a request is '/webhdfs/v1' joined (with or
\* without a '/' put in between) with the path-mode-encoded file path, then
\* the configured ones of user.name, doas, delegation in that order, then
\* op=<NAME>, then the arguments in the order the option builder received
\* them; the first parameter follows '?', every later one '&'
C27_PathAndQuery ==
  pe_pc = "done" =>
    \E sep \in {<<>>, <<47>>} :
      pq_out = SVC_MOUNT_POINT \o sep
                 \o PercentEncoded(pq_in.file_path, Unreserved \cup {47})
                 \o QueryString(Parameters, TRUE)

\* a create by user dr.who with a delegation token and no doas, with two
\* options: /webhdfs/v1/x?user.name=..&delegation=..&op=CREATE&..&..
C27_Witness ==
  /\ pe_pc = "done"
  /\ pq_in.user_name.some
  /\ ~pq_in.doas.some
  /\ pq_in.dt.some
  /\ pq_in.op = "create"
  /\ pq_in.file_path = <<47, 120>>
  /\ pq_args = <<OpArg("Permission", 420, FALSE, <<>>), OpArg("Overwrite", 0, TRUE, <<>>)>>
  /\ Len(pq_out) > Len(SVC_MOUNT_POINT)

\* a read or a get_file has returned
StreamReturned == file_pc = "ready" /\ file_call.op \in {"read", "get_file"}

\* C24: the timeout applies to each exec0 of a streaming read on its own: a
\* read or get_file returns the Timeout error exactly when its last exec0
\* (the OPEN or the fetch of a chunk) was not answered within
\* default_timeout, so a call whose OPEN and chunks each arrive within the
\* timeout never fails with Timeout, whatever its total duration
C24_PerChunkTimeout ==
  StreamReturned =>
    /\ file_clock.wait >= default_timeout <=> file_ret = IoErr("TimedOut")
    /\ file_clock.slowest < default_timeout => file_ret # IoErr("TimedOut")

\* a read of two chunks that took longer than default_timeout and returned
\* the bytes
C24_Witness ==
  /\ file_pc = "ready"
  /\ file_call.op = "read"
  /\ file_rd.chunks >= 2
  /\ file_clock.total > default_timeout
  /\ file_clock.slowest < default_timeout
  /\ file_ret = IoOk(MaxBuf)

\* a sync call was cancelled by the timeout and has not returned yet
Cancelled == pc = "done" /\ result.timeout

\* the requests of the attempt under way
OfAttempt == {i \in 1..Len(log) : log[i].attempt = attempt}

\* C25: a cancelled operation mutates no persistent client state: when the
\* timeout cancels a sync call, or an async caller drops the future, the
\* configuration and the memoized failover state are, and after the return
\* stay, what they were before the call, whatever the snapshot of the
\* operation had become; and if the operation was cancelled while its phase-1
\* request was unanswered, no request of that attempt carried the payload
C25_CancelKeepsState ==
  [][ /\ Cancelled =>
          /\ fostate = start
          /\ fostate' = start
          /\ alt_entrypoint' = alt_entrypoint
          /\ natmap' = natmap
          /\ log[Len(log)].phase = 1 =>
               \A i \in OfAttempt : log[i].body = data_empty
      /\ (pc \in {"phase1", "phase2"} /\ pc' = "idle") =>
          /\ fostate' = fostate
          /\ alt_entrypoint' = alt_entrypoint
          /\ natmap' = natmap
          /\ log' = <<>>
    ]_vars

\* a create with a payload timed out in its second attempt, after the
\* operation had flipped its snapshot, before the NameNode answered
C25_Witness ==
  /\ Cancelled
  /\ op = "create"
  /\ payload # data_empty
  /\ attempt = 2
  /\ snap # start
  /\ log[Len(log)].phase = 1

\* ------------------------------------------------------------------------
\* WriteHdfsFile and the write round trip
\* ------------------------------------------------------------------------

\* the last call of the session was c and has returned
WriteReturned(c) == pc = "idle" /\ w_call.op = c /\ w_call.ret # NoReturn

\* C21: a write returns Ok exactly when one APPEND with exactly its bytes
\* was accepted, the value is then len(bytes) and otherwise the write is an
\* error; the values of the successful writes sum up to the bytes the
\* server appended; a flush leaves no request behind
C21_WriteExact ==
  /\ WriteReturned("write") =>
       /\ w_call.ret.ok <=> w_call.delivered = <<w_call.bytes>>
       /\ w_call.ret.ok => w_call.ret = IoOk(Len(w_call.bytes))
       /\ ~w_call.ret.ok => w_call.delivered = <<>>
  /\ pc = "idle" => w_hist.count = w_srv.appended
  /\ w_call.op = "flush" => pc = "idle" /\ log = <<>> /\ w_call.ret = IoOk(0)

\* C22: while WriteHdfsFile::create runs every request is a CREATE of its
\* path with an empty body and no handle exists; the handle exists after
\* the return exactly when the CREATE succeeded; every write on a handle
\* is an APPEND to the handle's path with the handle's append options
C22_CreateThenAppend ==
  /\ w_call.op = "create" =>
       /\ \A i \in 1..Len(log) :
            /\ log[i].pq = path_and_query(w_call.path, "create")
            /\ log[i].method = "PUT"
            /\ log[i].body = data_empty
       /\ pc # "idle" => wf = NoFile
       /\ pc = "done" /\ result.r.ok => Len(log) >= 1
       /\ pc = "idle" =>
            IF w_call.ok
            THEN wf = [made |-> "create", path |-> w_call.path,
                       opts |-> w_call.a_opts]
            ELSE wf = NoFile
  /\ wf.made = "create" => w_hist.created
  /\ w_call.op = "write" =>
       /\ wf # NoFile
       /\ w_call.path = wf.path
       /\ w_call.args = wf.opts
       /\ \A i \in 1..Len(log) :
            /\ log[i].pq = path_and_query(wf.path, "append")
            /\ log[i].method = "POST"

\* a write of some bytes on a created handle with append options has been
\* answered by the DataNode
C22_Witness ==
  /\ pc = "done"
  /\ w_call.op = "write"
  /\ wf.made = "create"
  /\ wf.opts # <<>>
  /\ w_call.bytes # <<>>
  /\ Len(log) = 2
  /\ result.r.ok

SameInput ==
  /\ pc # "idle"
  /\ parked.pc # "idle"
  /\ op = parked.op
  /\ pq = parked.pq
  /\ payload = parked.payload
  /\ start = parked.start
  /\ heard[1] = heard[2]

\* the two futures have sent the same requests, hold the same snapshot and
\* have completed, if they have, with the same result
SameOutcome ==
  /\ pc = parked.pc
  /\ log = parked.log
  /\ snap = parked.snap
  /\ attempt = parked.attempt
  /\ hold = parked.hold
  /\ result.r = parked.result.r
  /\ result.fostate = parked.result.fostate

\* C26: under every interleaving of two operations of one client, two
\* operations with the same arguments, the same input failover state and
\* the same answers send the same requests and return the same result; a
\* step of one operation leaves the locals of the other, its failover
\* snapshot among them, as they were, a poll hands each future exactly the
\* locals it had, and no step changes the configuration or the NAT map
C26_Independent ==
  /\ [](SameInput => SameOutcome)
  /\ [][/\ cfg' = cfg
        /\ turn' = turn => parked' = parked
        /\ turn' # turn => parked' = locals /\ locals' = parked]_vars

\* two creates with the same payload have both been answered
\* StandbyException and then by the other NameNode and a DataNode
C26_Witness ==
  /\ SameInput
  /\ op = "create"
  /\ payload # data_empty
  /\ attempt = 2
  /\ pc = "done"
  /\ parked.pc = "done"
  /\ Len(heard[1]) = 3
  /\ result.r.ok

\* ------------------------------------------------------------------------
\* The permission argument
\* ------------------------------------------------------------------------

\* the path-and-query was built with a permission p, 0 <= p <= 0o777, as
\* its only option
PermissionGiven ==
  /\ pe_pc = "done"
  /\ Len(pq_args) = 1
  /\ pq_args[1].tag = "Permission"
  /\ pq_args[1].i >= 0
  /\ pq_args[1].i <= 7 * 64 + 7 * 8 + 7

\* C31: a permission p in 0..0o777 is rendered as &permission= followed by
\* exactly three octal digits, most significant first, leading zeros kept,
\* and the three digits read as an octal number are p
C31_ThreeOctalDigits ==
  PermissionGiven =>
    \E d2 \in 0..7, d1 \in 0..7, d0 \in 0..7 :
      /\ Len(pq_out) >= 15
      /\ SubSeq(pq_out, Len(pq_out) - 14, Len(pq_out))
           = <<38>> \o bytes("permission") \o <<61, 48 + d2, 48 + d1, 48 + d0>>
      /\ d2 * 64 + d1 * 8 + d0 = pq_args[1].i

\* a mkdirs with permission 0o007: ...&permission=007
C31_Witness ==
  /\ PermissionGiven
  /\ pq_in.op = "mkdirs"
  /\ pq_args[1].i = 7
  /\ SubSeq(pq_out, Len(pq_out) - 2, Len(pq_out)) = <<48, 48, 55>>

\* ------------------------------------------------------------------------
\* Configuration search
\* ------------------------------------------------------------------------

\* the first location, in the order of the search, where a file is found
FirstFound ==
  IF cf_env # "unset" THEN "env"
  ELSE IF cf_local # "absent" THEN "local"
  ELSE IF cf_user \notin {"nohome", "absent"} THEN "user"
  ELSE "-"

\* the state of the file at the first location
FirstFile ==
  CASE FirstFound = "env" -> cf_env
    [] FirstFound = "local" -> cf_local
    [] FirstFound = "user" -> cf_user
    [] OTHER -> "absent"

\* C32: the search uses the first file found and only it: no file of a
\* later location is ever read, and when the first file found is a valid
\* configuration the search ends with it, whatever the later files are
C32_FirstFound ==
  /\ cf_read \subseteq {FirstFound}
  /\ (cf_pc \in {"done", "panicked"} /\ FirstFile = "valid") =>
       (cf_pc = "done" /\ cf_out = Found(FirstFound))

\* ------------------------------------------------------------------------
\* Entrypoints, bounds of an operation, payloads
\* ------------------------------------------------------------------------

\* C33: the first request of an attempt made in state PRIMARY goes to the
\* scheme and authority of entrypoint, that of an attempt made in state ALT
\* to those of alt_entrypoint when it is configured and of entrypoint
\* otherwise, in both cases untranslated by the NAT map
C33_EntrypointSelection ==
  \A k \in 1..Len(log) :
    log[k].phase = 1 =>
      LET ep == IF log[k].fo = ALT /\ alt_entrypoint # NoEntrypoint
                THEN alt_entrypoint ELSE Entrypoint
      IN /\ log[k].scheme = ep.scheme
         /\ log[k].authority = ep.authority

\* an attempt in state ALT has sent its first request to alt_entrypoint,
\* for whose authority the NAT map has an entry
C33_Witness ==
  /\ pc = "phase1"
  /\ log[Len(log)].fo = ALT
  /\ alt_entrypoint # NoEntrypoint
  /\ log[Len(log)].authority = AltEntrypoint.authority
  /\ log[Len(log)].authority \in DOMAIN natmap

\* C35: no first request of a create or append carries the payload (its
\* body is empty), and when the operation returns success the attempt that
\* succeeded has sent the payload in exactly one request, its second one,
\* addressed to the redirect target
C35_PayloadOnce ==
  op \in DataOps =>
    /\ \A k \in 1..Len(log) : log[k].phase = 1 => log[k].body = data_empty
    /\ (pc = "done" /\ result.r.ok) =>
         /\ Cardinality(Requests(attempt, 2)) = 1
         /\ \A k \in Requests(attempt, 2) :
              /\ log[k].body = payload
              /\ log[k].via.form = "uri"

\* C34: an operation makes at most two attempts, each of at most one first
\* and one second request, so at most four requests; the answer to a
\* second request and the outcome of a second attempt are final; and when
\* every request is answered an operation in flight comes to its end
C34_BoundedRequests ==
  /\ [](/\ attempt <= 2
        /\ Len(log) <= 4
        /\ \A k \in 1..Len(log) : log[k].attempt \in 1..2
        /\ \A i \in 1..2 : /\ Cardinality(Requests(i, 1)) <= 1
                           /\ Cardinality(Requests(i, 2)) <= 1)
  /\ (pc \in {"phase1", "phase2"}) ~> (pc \notin {"phase1", "phase2"})

\* an operation has ended after four requests: both NameNodes redirected,
\* the first DataNode answered StandbyException, the second a redirect
C34_Witness ==
  /\ pc = "done"
  /\ Len(log) = 4
  /\ attempt = 2
  /\ StandbyException(ObservedError(att[1].r))
  /\ att[1].phase1 = "redirect"
  /\ is_redirection(att[2].status)
  /\ att[2].phase1 = "redirect"

\* ------------------------------------------------------------------------
\* The position of a ReadHdfsFile
\* ------------------------------------------------------------------------

\* C36: the position of a ReadHdfsFile opened on a file of length L is
\* within 0..L in every state, whatever seeks and reads were made and
\* however many bytes the server delivered in whatever chunks
C36_PositionInFile == 0 <= file_pos /\ file_pos <= file_len

\* C37: a seek that fails, with a target before offset 0 or with a Start
\* offset that does not fit an i64, leaves the position where it was
C37_FailedSeekKeepsPosition ==
  (file_call.op = "seek" /\ ~file_ret.ok) =>
    /\ file_ret = IoErr("InvalidInput")
    /\ file_pos = file_call.pos0

\* a seek from a position past 0 has failed
C37_Witness ==
  /\ file_call.op = "seek"
  /\ file_ret = IoErr("InvalidInput")
  /\ file_call.pos0 > 0
  /\ file_call.from.whence = "Start"

\* C38: a read that returns an error, be it a failed request, a timeout or
\* an error of the stream after some chunks, leaves the position where it
\* was before the read
C38_FailedReadKeepsPosition ==
  (file_pc = "ready" /\ file_call.op = "read" /\ ~file_ret.ok) =>
    file_pos = file_call.pos0

\* C39: every operation made through a ReadHdfsFile or a WriteHdfsFile (the
\* stat of open, the OPEN of a read, the CREATE, the APPEND of a write)
\* leaves the failover state it returned in the client the handle holds,
\* into_parts hands that client out with this state, and the client's next
\* operation starts from it
C39_HandleKeepsFailover ==
  /\ pc = "idle" => fostate = w_hist.left
  /\ pc # "idle" => start = w_hist.left

\* a ReadHdfsFile whose stat learned the failover was split, and the client
\* it returned sent its mkdirs to the alternate NameNode
C39_Witness ==
  /\ pc = "phase1"
  /\ w_call.op = "mkdirs"
  /\ w_hist.n = 1
  /\ w_hist.by = "open"
  /\ w_hist.left = ALT
  /\ start = ALT
  /\ log[1].authority = AltEntrypoint.authority

====
